---- MODULE Spec2Model ----
(***************************************************************************)
(* WinHTML Editor: the native coordination shell (Go, package main) and    *)
(* the editor session that drives it (App.tsx).                            *)
(*                                                                         *)
(* Strings are sequences of one-character strings, so that extension       *)
(* splitting, case folding and header escaping are computed character by   *)
(* character as the Go library does.  A path is a sequence of components   *)
(* (names); its first component is the volume root.                        *)
(***************************************************************************)
EXTENDS Integers, Sequences, FiniteSets, TLC

(***************************************************************************)
(* Strings                                                                 *)
(***************************************************************************)
UpperChars == <<"A","B","C","D","E","F","G","H","I","J","K","L","M",
                "N","O","P","Q","R","S","T","U","V","W","X","Y","Z">>
LowerChars == <<"a","b","c","d","e","f","g","h","i","j","k","l","m",
                "n","o","p","q","r","s","t","u","v","w","x","y","z">>

\* The lower-case form of each upper-case letter.
LowerOf == [c \in {UpperChars[i] : i \in 1..26} |->
                LowerChars[CHOOSE i \in 1..26 : UpperChars[i] = c]]

\* strings.ToLower on one character.
LowerChar(c) == IF c \in DOMAIN LowerOf THEN LowerOf[c] ELSE c

\* strings.ToLower
ToLower(s) == [i \in 1..Len(s) |-> LowerChar(s[i])]

\* strings.EqualFold (simple case folding; the model's alphabet is ASCII)
EqualFold(s, t) == ToLower(s) = ToLower(t)

\* strings.HasSuffix
HasSuffix(s, suf) ==
    /\ Len(suf) <= Len(s)
    /\ SubSeq(s, Len(s) - Len(suf) + 1, Len(s)) = suf

\* strings.TrimSuffix
TrimSuffix(s, suf) ==
    IF HasSuffix(s, suf) THEN SubSeq(s, 1, Len(s) - Len(suf)) ELSE s

Dot        == <<".">>
DotDot     == <<".", ".">>
DotHtml    == <<".", "h", "t", "m", "l">>
DotHtm     == <<".", "h", "t", "m">>
DotMd      == <<".", "m", "d">>
DotMarkdown == <<".", "m", "a", "r", "k", "d", "o", "w", "n">>
AssetsSuffix == <<"_", "a", "s", "s", "e", "t", "s">>
\* filepath.Base of a volume root ("C:\") is the separator.
Separator  == <<"\\">>

(***************************************************************************)
(* Paths (path/filepath)                                                   *)
(***************************************************************************)
RECURSIVE CleanFrom(_, _, _)
CleanFrom(p, i, acc) ==
    IF i > Len(p) THEN acc
    ELSE IF p[i] = Dot \/ p[i] = <<>> THEN CleanFrom(p, i + 1, acc)
    ELSE IF p[i] = DotDot
         THEN CleanFrom(p, i + 1,
                        IF Len(acc) > 1 THEN SubSeq(acc, 1, Len(acc) - 1) ELSE acc)
    ELSE CleanFrom(p, i + 1, Append(acc, p[i]))

\* filepath.Clean of a rooted path: "." and empty components are dropped,
\* ".." removes the component before it (never the root).
Clean(p) == IF p = <<>> THEN <<>> ELSE CleanFrom(p, 2, <<p[1]>>)

\* filepath.Dir: the cleaned path without its last component; the root's
\* directory is the root.
Dir(p) == IF Len(p) <= 1 THEN Clean(p) ELSE Clean(SubSeq(p, 1, Len(p) - 1))

\* filepath.Base: the last component; the separator for a volume root.
Base(p) ==
    IF Len(p) = 0 THEN Dot
    ELSE IF Len(p) = 1 THEN Separator
    ELSE p[Len(p)]

\* Index of the last "." of a name, 0 when it has none.
LastDot(name) ==
    IF \E i \in 1..Len(name) : name[i] = "."
    THEN CHOOSE i \in 1..Len(name) :
            /\ name[i] = "."
            /\ \A j \in (i + 1)..Len(name) : name[j] # "."
    ELSE 0

\* filepath.Ext: the suffix beginning at the final dot, empty without a dot.
Ext(name) ==
    IF LastDot(name) = 0 THEN <<>> ELSE SubSeq(name, LastDot(name), Len(name))

\* filepath.Join(dir, name): joined and cleaned; an empty element is ignored.
Join(dir, name) == Clean(IF name = <<>> THEN dir ELSE Append(dir, name))

(***************************************************************************)
(* Model bounds and the paths the requests are drawn from                  *)
(***************************************************************************)
\* Number of distinct asset parts a save-file request may carry.
MaxAssets == 2

Digits == <<"1", "2", "3", "4">>
AssetNames == {<<"i", Digits[k]>> : k \in 1..MaxAssets}

Root == <<"C", ":">>
NameA == <<"a">>
NameUpperA == <<"A">>
NameB == <<"b">>

PlaceDirs == {<<Root>>, <<Root, NameA>>, <<Root, NameUpperA>>, <<Root, NameB>>,
              <<Root, Dot, NameA>>, <<Root, NameB, NameA>>}
PlaceStems == {<<>>, NameA, NameUpperA, NameB, DotDot}
PlaceExts == {<<>>, DotHtml, <<".", "H", "T", "M", "L">>, DotHtm,
              DotMd, <<".", "M", "d">>, DotMarkdown}
\* "" and ".." name no file.
PlaceNames == {s \o e : s \in PlaceStems, e \in PlaceExts} \ {<<>>, DotDot}
PlacePaths == {Append(d, n) : d \in PlaceDirs, n \in PlaceNames}

(***************************************************************************)
(* /api/save-file: the placement policy                                    *)
(***************************************************************************)
inputDir(inputPath) == Dir(inputPath)
inputName(inputPath) == Base(inputPath)
inputExt(inputPath) == Ext(inputName(inputPath))
inputNameNoExt(inputPath) == TrimSuffix(inputName(inputPath), inputExt(inputPath))
parentDirName(inputPath) == Base(inputDir(inputPath))

\* Markdown strategy applies: the extension is .md or .markdown in any case.
IsMarkdownTarget(inputPath) ==
    \/ ToLower(inputExt(inputPath)) = DotMd
    \/ ToLower(inputExt(inputPath)) = DotMarkdown

\* shouldBundle comparing the two names case-sensitively.
shouldBundleCaseSensitive(inputPath, hasAssets) ==
    /\ ~IsMarkdownTarget(inputPath)
    /\ hasAssets
    /\ parentDirName(inputPath) # inputNameNoExt(inputPath)

\* shouldBundle without the test for assets.
shouldBundleWithoutAssets(inputPath, hasAssets) ==
    /\ ~IsMarkdownTarget(inputPath)
    /\ ~EqualFold(parentDirName(inputPath), inputNameNoExt(inputPath))

\* HTML strategy: bundle only with assets and a parent directory whose name
\* is not (case-insensitively) the document's base name.
shouldBundle(inputPath, hasAssets) ==
    /\ ~IsMarkdownTarget(inputPath)
    /\ hasAssets
    /\ ~EqualFold(parentDirName(inputPath), inputNameNoExt(inputPath))

\* finalDir with the assets of a Markdown target beside the document.
finalDirNoSidecar(inputPath, hasAssets) ==
    IF shouldBundle(inputPath, hasAssets)
    THEN Join(inputDir(inputPath), inputNameNoExt(inputPath))
    ELSE inputDir(inputPath)

finalDir(inputPath, hasAssets) ==
    IF IsMarkdownTarget(inputPath)
    THEN Join(inputDir(inputPath), inputNameNoExt(inputPath) \o AssetsSuffix)
    ELSE IF shouldBundle(inputPath, hasAssets)
         THEN Join(inputDir(inputPath), inputNameNoExt(inputPath))
         ELSE inputDir(inputPath)

finalHtmlPath(inputPath, hasAssets) ==
    IF IsMarkdownTarget(inputPath) THEN inputPath
    ELSE IF shouldBundle(inputPath, hasAssets)
         THEN Join(finalDir(inputPath, hasAssets), inputName(inputPath))
         ELSE inputPath

\* os.MkdirAll is called: for a Markdown target with assets, and when bundling.
NeedsMkdir(inputPath, hasAssets) ==
    IF IsMarkdownTarget(inputPath) THEN hasAssets
    ELSE shouldBundle(inputPath, hasAssets)

NoPath == <<>>

\* The response of a successful request: DialogResponse{Path: finalHtmlPath}.
responsePathInput(inputPath, hasAssets) == inputPath

responsePath(inputPath, hasAssets) == finalHtmlPath(inputPath, hasAssets)

\* The handler run on one request.  req: the multipart form (filePath, whether
\* the "html" part is present, the asset parts).  env: what the filesystem
\* answers (mkdirOk; write = "ok", "create" when os.Create fails, "copy" when
\* io.Copy fails; assetFail = the assets whose open or create fails).
\* Result: HTTP status, the path of the response, the placement decided, the
\* directories created, the document file created, the assets written.
SaveFileResult(req, env) ==
    LET p      == req.filePath
        has    == req.assets # {}
        fdir   == finalDir(p, has)
        fpath  == finalHtmlPath(p, has)
        mk     == NeedsMkdir(p, has)
        none   == [status |-> 400, path |-> NoPath, final |-> NoPath,
                   finalDir |-> NoPath, dirs |-> {}, doc |-> {},
                   complete |-> FALSE, assets |-> {}]
    IN  IF p = NoPath THEN none
        ELSE IF mk /\ ~env.mkdirOk
             THEN [none EXCEPT !.status = 500]
        ELSE LET placed == [none EXCEPT !.final = fpath, !.finalDir = fdir,
                                        !.dirs = IF mk THEN {fdir} ELSE {}]
             IN  IF ~req.htmlPart THEN placed
                 ELSE IF env.write = "create"
                      THEN [placed EXCEPT !.status = 500]
                 ELSE IF env.write = "copy"
                      THEN [placed EXCEPT !.status = 500, !.doc = {fpath}]
                 ELSE [placed EXCEPT
                         !.status = 200, !.path = responsePath(p, has),
                         !.doc = {fpath},
                         !.complete = TRUE,
                         !.assets = {Join(fdir, a) : a \in req.assets \ env.assetFail}]

\* Number of save-file requests the editor sends one after the other.
MaxRounds == 2

VARIABLES
    plReq,          \* the save-file request
    plEnv,          \* what the filesystem answers to it
    plRes,          \* the handler's result, NoResult before it has run
    plOriginalPath, \* originalPath of the editor that sent the request
    plAdopted,      \* the editor has handled the response
    plRound         \* requests sent so far
placeVars == <<plReq, plEnv, plRes, plOriginalPath, plAdopted, plRound>>

SaveRequests == [filePath : PlacePaths \cup {NoPath}, htmlPart : BOOLEAN,
                 assets : SUBSET AssetNames]
SaveEnvs(req) == [mkdirOk : BOOLEAN, write : {"ok", "create", "copy"},
                  assetFail : SUBSET req.assets]
NoResult == [status |-> 0]

\* One save-file request served against one filesystem behaviour.
PlaceSave ==
    /\ plRes = NoResult
    /\ plRes' = SaveFileResult(plReq, plEnv)
    /\ UNCHANGED <<plReq, plEnv, plOriginalPath, plAdopted, plRound>>

\* handleSaveFile and performSaveAs on the response: `if (response.ok)` and
\* `if (resData.path) setOriginalPath(resData.path)`.
AdoptPath(current, status, path) ==
    IF status = 200 /\ path # NoPath THEN path ELSE current

\* The editor handles the response of its save-file request.
PlaceAdopt ==
    /\ plRes # NoResult
    /\ ~plAdopted
    /\ plOriginalPath' = AdoptPath(plOriginalPath, plRes.status, plRes.path)
    /\ plAdopted' = TRUE
    /\ UNCHANGED <<plReq, plEnv, plRes, plRound>>

\* The next Save after a successful one: handleSaveFile posts the document
\* with filePath = originalPath, the html part and the assets of that moment.
\* The filesystem answers as before.
PlaceNextSave(assets) ==
    /\ plAdopted
    /\ plRes.status = 200
    /\ plOriginalPath # NoPath
    /\ plRound < MaxRounds
    /\ plReq' = [filePath |-> plOriginalPath, htmlPart |-> TRUE, assets |-> assets]
    /\ plEnv' = [plEnv EXCEPT !.assetFail = @ \cap assets]
    /\ plRes' = NoResult
    /\ plAdopted' = FALSE
    /\ plRound' = plRound + 1
    /\ UNCHANGED plOriginalPath

(***************************************************************************)
(* File lock registry (activeFileHandles, guarded by lockMu)               *)
(***************************************************************************)
\* Number of file handles the process can hold open for locks at a time.
MaxHandles == 3
\* Number of save-file requests that can be in flight at a time.
MaxSaves == 1

GOOS == "windows"

PathToLower(p) == [i \in 1..Len(p) |-> ToLower(p[i])]

\* getLockKey in a program that only cleans the path.
getLockKeyCaseSensitive(path) == Clean(path)

getLockKey(path) ==
    IF GOOS = "windows" THEN PathToLower(Clean(path)) ELSE Clean(path)

FileA == <<"a", ".", "h", "t", "m", "l">>
FileUpperA == <<"A", ".", "H", "T", "M", "L">>
FileB == <<"b", ".", "h", "t", "m", "l">>
\* C:\a\a.html, the same file spelled C:\.\A\A.HTML, and C:\b.html
PathA == <<Root, NameA, FileA>>
PathA2 == <<Root, Dot, NameUpperA, FileUpperA>>
PathB == <<Root, FileB>>
LockPaths == {PathA, PathA2, PathB}
\* Every file a lock, unlock or save-file request of the model can touch.
FileKeys == {getLockKey(finalHtmlPath(p, h)) : p \in LockPaths, h \in BOOLEAN}

VARIABLES
    activeFileHandles,  \* the registry: the lock keys that map to a handle
    openHandles,        \* file -> number of handles lockFile holds open on it
    fsState,            \* file -> "ok" (can be opened) | "gone"
    saveReq,            \* save-file requests in flight, by slot
    lastOp,             \* the registry operation served last
    phase               \* "serving" | "killing" (exit timer runs) | "exited"
lockVars == <<activeFileHandles, openHandles, fsState, saveReq, lastOp, phase>>

SaveSlots == 1..MaxSaves

Locked(reg, key) == key \in reg

RECURSIVE SumOver(_, _)
SumOver(f, S) ==
    IF S = {} THEN 0
    ELSE LET x == CHOOSE y \in S : TRUE IN f[x] + SumOver(f, S \ {x})

\* os.Open(path) succeeds: the file is there and a handle is free.
CanOpen(open, fs, path) ==
    /\ fs[getLockKey(path)] = "ok"
    /\ SumOver(open, DOMAIN open) < MaxHandles

\* lockFile(path): the registry and the open handles after the call.
lockFileMissingCheck(reg, open, fs, path) ==
    LET key == getLockKey(path)
    IN  IF CanOpen(open, fs, path)
        THEN [reg |-> reg \cup {key}, open |-> [open EXCEPT ![key] = @ + 1]]
        ELSE [reg |-> reg, open |-> open]

\* lockFile in a program that records a failed open in the registry.
lockFilePartial(reg, open, fs, path) ==
    LET key == getLockKey(path)
    IN  IF Locked(reg, key) THEN [reg |-> reg, open |-> open]
        ELSE IF CanOpen(open, fs, path)
        THEN [reg |-> reg \cup {key}, open |-> [open EXCEPT ![key] = @ + 1]]
        ELSE [reg |-> reg \cup {key}, open |-> open]

lockFile(reg, open, fs, path) ==
    LET key == getLockKey(path)
    IN  IF Locked(reg, key) THEN [reg |-> reg, open |-> open]
        ELSE IF CanOpen(open, fs, path)
        THEN [reg |-> reg \cup {key}, open |-> [open EXCEPT ![key] = @ + 1]]
        ELSE [reg |-> reg, open |-> open]

\* unlockFile(path)
unlockFileNoClose(reg, open, path) ==
    LET key == getLockKey(path)
    IN  IF Locked(reg, key)
        THEN [reg |-> reg \ {key}, open |-> open]
        ELSE [reg |-> reg, open |-> open]

unlockFile(reg, open, path) ==
    LET key == getLockKey(path)
    IN  IF Locked(reg, key)
        THEN [reg |-> reg \ {key}, open |-> [open EXCEPT ![key] = @ - 1]]
        ELSE [reg |-> reg, open |-> open]

\* unlockAll(): every registered handle is closed and its entry deleted.
unlockAll(reg, open) ==
    [reg  |-> {},
     open |-> [k \in DOMAIN open |-> IF k \in reg THEN open[k] - 1 ELSE open[k]]]

(***************************************************************************)
(* The handlers that use the registry                                      *)
(***************************************************************************)
IdleSave == [pc |-> "idle", final |-> NoPath,
             heldBefore |-> FALSE, clean |-> TRUE, reopen |-> FALSE]

\* Bookkeeping for the requests in flight: a save-file request other than
\* `self` stops being undisturbed when another handler changes whether its
\* final path is registered.
Disturbed(sr, regOld, regNew, self) ==
    [t \in SaveSlots |->
        IF /\ t # self
           /\ sr[t].pc # "idle"
           /\ Locked(regOld, getLockKey(sr[t].final))
                # Locked(regNew, getLockKey(sr[t].final))
        THEN [sr[t] EXCEPT !.clean = FALSE]
        ELSE sr[t]]

\* POST /api/file/lock.  path = NoPath: the body does not decode to a
\* non-empty path.  The answer is 200 in every case.
LockRequest(path) ==
    /\ phase # "exited"
    /\ LET res == IF path = NoPath
                  THEN [reg |-> activeFileHandles, open |-> openHandles]
                  ELSE lockFile(activeFileHandles, openHandles, fsState, path)
       IN  /\ activeFileHandles' = res.reg
           /\ openHandles' = res.open
           /\ saveReq' = Disturbed(saveReq, activeFileHandles, res.reg, 0)
    /\ lastOp' = [op |-> "lock", status |-> 200,
                  exists |-> path # NoPath
                             /\ Locked(activeFileHandles, getLockKey(path))]
    /\ UNCHANGED <<fsState, phase>>

\* POST /api/file/unlock
UnlockRequest(path) ==
    /\ phase # "exited"
    /\ LET res == IF path = NoPath
                  THEN [reg |-> activeFileHandles, open |-> openHandles]
                  ELSE unlockFile(activeFileHandles, openHandles, path)
       IN  /\ activeFileHandles' = res.reg
           /\ openHandles' = res.open
           /\ saveReq' = Disturbed(saveReq, activeFileHandles, res.reg, 0)
    /\ lastOp' = [op |-> "unlock", status |-> 200,
                  exists |-> path # NoPath
                             /\ Locked(activeFileHandles, getLockKey(path))]
    /\ UNCHANGED <<fsState, phase>>

\* /api/kill: unlockAll(), then the process exits 100 ms later.
KillRequest ==
    /\ phase # "exited"
    /\ LET res == unlockAll(activeFileHandles, openHandles)
       IN  /\ activeFileHandles' = res.reg
           /\ openHandles' = res.open
           /\ saveReq' = Disturbed(saveReq, activeFileHandles, res.reg, 0)
    /\ lastOp' = [op |-> "kill", status |-> 200,
                  exists |-> activeFileHandles # {}]
    /\ phase' = "killing"
    /\ UNCHANGED fsState

\* ProcessExit with the exit timer started without a request for /api/kill.
ProcessExitUnasked ==
    /\ phase # "exited"
    /\ phase' = "exited"
    /\ UNCHANGED <<activeFileHandles, openHandles, fsState, saveReq, lastOp>>

\* The exit timer of /api/kill fires: os.Exit(0).
ProcessExit ==
    /\ phase = "killing"
    /\ phase' = "exited"
    /\ UNCHANGED <<activeFileHandles, openHandles, fsState, saveReq, lastOp>>

\* /api/save-file up to and including unlockFile(finalHtmlPath).  A request
\* that is answered before that point (unparsable form, empty filePath,
\* MkdirAll failure, missing html part) does not reach the registry.
SaveStart(s, inputPath, hasAssets, accepted) ==
    /\ phase # "exited"
    /\ saveReq[s].pc = "idle"
    /\ IF accepted
       THEN LET final == finalHtmlPath(inputPath, hasAssets)
                res == unlockFile(activeFileHandles, openHandles, final)
            IN  /\ activeFileHandles' = res.reg
                /\ openHandles' = res.open
                /\ saveReq' = [Disturbed(saveReq, activeFileHandles, res.reg, s)
                               EXCEPT ![s] =
                        [pc |-> "write", final |-> final,
                         heldBefore |-> Locked(activeFileHandles, getLockKey(final)),
                         clean |-> TRUE, reopen |-> FALSE]]
                /\ lastOp' = [op |-> "saveUnlock", status |-> 0,
                              exists |-> Locked(activeFileHandles, getLockKey(final))]
       ELSE /\ lastOp' = [op |-> "saveRejected", status |-> 400, exists |-> FALSE]
            /\ UNCHANGED <<activeFileHandles, openHandles, saveReq>>
    /\ UNCHANGED <<fsState, phase>>

\* os.Create(finalHtmlPath), io.Copy, Close: outcome "create" when creating
\* fails, "copy" when copying fails, "ok".  Once created the file is there.
\* On success the assets are written and the response {path: finalHtmlPath}
\* is sent; on failure lockFile comes next.
SaveWrite(s, outcome) ==
    /\ phase # "exited"
    /\ saveReq[s].pc = "write"
    /\ IF outcome = "create"
       THEN UNCHANGED fsState
       ELSE fsState' = [fsState EXCEPT ![getLockKey(saveReq[s].final)] = "ok"]
    /\ saveReq' = [saveReq EXCEPT ![s].pc =
                        IF outcome = "ok" THEN "saved" ELSE "relock"]
    /\ UNCHANGED <<activeFileHandles, openHandles, lastOp, phase>>

\* SaveRelock without the call of lockFile.
SaveRelockSkipped(s) ==
    /\ phase # "exited"
    /\ saveReq[s].pc = "relock"
    /\ saveReq' = [saveReq EXCEPT ![s].pc = "failed",
                     ![s].reopen =
                        \/ Locked(activeFileHandles, getLockKey(saveReq[s].final))
                        \/ CanOpen(openHandles, fsState, saveReq[s].final)]
    /\ lastOp' = [op |-> "saveRelock", status |-> 500, exists |-> FALSE]
    /\ UNCHANGED <<activeFileHandles, openHandles, fsState, phase>>

\* The write failed: lockFile(finalHtmlPath), then the error response.
\* reopen records whether the file could be locked at that moment.
SaveRelock(s) ==
    /\ phase # "exited"
    /\ saveReq[s].pc = "relock"
    /\ LET final == saveReq[s].final
           res == lockFile(activeFileHandles, openHandles, fsState, final)
       IN  /\ activeFileHandles' = res.reg
           /\ openHandles' = res.open
           /\ saveReq' = [Disturbed(saveReq, activeFileHandles, res.reg, s)
                          EXCEPT ![s].pc = "failed",
                                 ![s].reopen =
                                    \/ Locked(activeFileHandles, getLockKey(final))
                                    \/ CanOpen(openHandles, fsState, final)]
           /\ lastOp' = [op |-> "saveRelock", status |-> 500,
                         exists |-> Locked(activeFileHandles, getLockKey(final))]
    /\ UNCHANGED <<fsState, phase>>

\* The response has been delivered; the slot serves the next request.
SaveDone(s) ==
    /\ phase # "exited"
    /\ saveReq[s].pc \in {"saved", "failed"}
    /\ saveReq' = [saveReq EXCEPT ![s] = IdleSave]
    /\ UNCHANGED <<activeFileHandles, openHandles, fsState, lastOp, phase>>

\* Another program or the user deletes, moves or locks away a file (possible
\* only while the process holds no handle on it), or puts it back.
EnvChange(k, st) ==
    /\ phase # "exited"
    /\ fsState[k] # st
    /\ st = "gone" => openHandles[k] = 0
    /\ fsState' = [fsState EXCEPT ![k] = st]
    /\ UNCHANGED <<activeFileHandles, openHandles, saveReq, lastOp, phase>>

FsStates == {"ok", "gone"}

\* The lock and unlock requests as a client sees them.
VARIABLES
    lockReq   \* the path of the last request, the keys whose open failed,
              \* and for each key the spelling that registered it last
reqVars == <<lockReq>>
NoLockRequest == [op |-> "none", path |-> NoPath, failed |-> {},
                  lockedBy |-> [k \in FileKeys |-> NoPath]]

\* os.Open fails inside lockFile(path).
OpenFails(reg, open, fs, path) ==
    /\ ~Locked(reg, getLockKey(path))
    /\ ~CanOpen(open, fs, path)

\* A client posts to /api/file/lock and reads the answer.
ClientLock(path) ==
    /\ LockRequest(path)
    /\ lockReq' = [op |-> "lock", path |-> path,
                   failed |-> IF path # NoPath
                                 /\ OpenFails(activeFileHandles, openHandles,
                                              fsState, path)
                              THEN lockReq.failed \cup {getLockKey(path)}
                              ELSE lockReq.failed,
                   lockedBy |-> IF path # NoPath
                                   /\ ~Locked(activeFileHandles, getLockKey(path))
                                   /\ CanOpen(openHandles, fsState, path)
                                THEN [lockReq.lockedBy EXCEPT
                                         ![getLockKey(path)] = path]
                                ELSE lockReq.lockedBy]

\* A client posts to /api/file/unlock and reads the answer.
ClientUnlock(path) ==
    /\ UnlockRequest(path)
    /\ lockReq' = [lockReq EXCEPT !.op = "unlock", !.path = path]
NoOp == [op |-> "none", status |-> 0, exists |-> FALSE]

(***************************************************************************)
(* Port arbitration (main, up to the role decision)                        *)
(***************************************************************************)
APP_PORT == 58888

\* Bound: processes launched.
MaxProcs == 3

ProcNames == <<"p1", "p2", "p3", "p4", "p5">>
Procs == {ProcNames[i] : i \in 1..MaxProcs}
NoProc == "none"
\* Another program listening on 127.0.0.1:APP_PORT.
Foreign == "other"

VARIABLES
    portOwner,   \* who is bound to 127.0.0.1:APP_PORT: a process, Foreign, NoProc
    proc,        \* per process: pc, role, whether it was given a file argument
    received     \* POSTs /api/cli-handover answered by a Primary
arbVars == <<portOwner, proc, received>>

\* net.Listen binding every launch, as with a shared (reusable) port.
ListenShared(owner, p) == [err |-> FALSE, owner |-> p]

\* net.Listen("tcp", "127.0.0.1:APP_PORT"): the operating system binds the
\* port for one listener at a time.
Listen(owner, p) ==
    IF owner = NoProc
    THEN [err |-> FALSE, owner |-> p]
    ELSE [err |-> TRUE, owner |-> owner]

\* posts: POSTs to /api/cli-handover sent; navs: browser navigations started.
NotLaunched == [pc |-> "absent", role |-> "none", arg |-> FALSE,
                posts |-> 0, navs |-> 0]

\* The program is started, with or without a file argument.
Launch(p, arg) ==
    /\ proc[p].pc = "absent"
    /\ proc' = [proc EXCEPT ![p] = [pc |-> "binding", role |-> "none", arg |-> arg,
                                    posts |-> 0, navs |-> 0]]
    /\ UNCHANGED <<portOwner, received>>

\* main: the bind attempt and the role it decides.
Bind(p) ==
    /\ proc[p].pc = "binding"
    /\ LET res == Listen(portOwner, p)
       IN  /\ portOwner' = res.owner
           /\ proc' = [proc EXCEPT ![p] =
                 IF res.err
                 THEN [@ EXCEPT !.role = "secondary",
                                !.pc = IF proc[p].arg THEN "handover" ELSE "browser"]
                 ELSE [@ EXCEPT !.role = "primary", !.pc = "serving"]]
    /\ UNCHANGED received

\* SecondaryHandover trying again after a POST that failed.
SecondaryHandoverRetry(p, outcome) ==
    /\ proc[p].pc = "handover"
    /\ outcome = "posted" =>
          /\ portOwner \in Procs
          /\ proc[portOwner].pc = "serving"
    /\ received' = IF outcome = "posted" THEN received + 1 ELSE received
    /\ proc' = [proc EXCEPT
                  ![p].pc = IF outcome \in {"postFailed", "timeout"}
                            THEN "handover" ELSE "exited",
                  ![p].posts = IF outcome = "unreadable" THEN @ ELSE @ + 1]
    /\ UNCHANGED portOwner

\* Secondary with a file argument: the file is read and posted to the
\* Primary with a 2 s timeout; whatever happens, main returns.  outcome:
\* "unreadable" (os.Stat or os.ReadFile fails or the path is a directory: no
\* POST), "posted" (answered), "postFailed" (connection refused), "timeout"
\* (no answer within 2 s).
SecondaryHandover(p, outcome) ==
    /\ proc[p].pc = "handover"
    /\ outcome = "posted" =>
          /\ portOwner \in Procs
          /\ proc[portOwner].pc = "serving"
    /\ received' = IF outcome = "posted" THEN received + 1 ELSE received
    /\ proc' = [proc EXCEPT ![p].pc = "exited",
                            ![p].posts = IF outcome = "unreadable" THEN @ ELSE @ + 1]
    /\ UNCHANGED portOwner

HandoverOutcomes == {"posted", "unreadable", "postFailed", "timeout"}

\* Secondary without argument: openDefaultBrowser(targetUrl), then return.
SecondaryBrowser(p) ==
    /\ proc[p].pc = "browser"
    /\ proc' = [proc EXCEPT ![p].pc = "exited", ![p].navs = @ + 1]
    /\ UNCHANGED <<portOwner, received>>

\* The Primary exits (tray Exit, /api/kill); its port is released.
PrimaryExit(p) ==
    /\ proc[p].pc = "serving"
    /\ proc' = [proc EXCEPT ![p].pc = "exited"]
    /\ portOwner' = NoProc
    /\ UNCHANGED received

(***************************************************************************)
(* Encodings (encoding/hex, encoding/base64, net/url)                      *)
(***************************************************************************)
HexDigits == <<"0","1","2","3","4","5","6","7","8","9","a","b","c","d","e","f">>

\* hex.EncodeToString
hexEncodeToString(b) ==
    [i \in 1..(2 * Len(b)) |->
        IF i % 2 = 1 THEN HexDigits[(b[(i + 1) \div 2] \div 16) + 1]
                     ELSE HexDigits[(b[i \div 2] % 16) + 1]]

Base64Alphabet ==
    <<"A","B","C","D","E","F","G","H","I","J","K","L","M","N","O","P",
      "Q","R","S","T","U","V","W","X","Y","Z","a","b","c","d","e","f",
      "g","h","i","j","k","l","m","n","o","p","q","r","s","t","u","v",
      "w","x","y","z","0","1","2","3","4","5","6","7","8","9","+","/">>
Base64Chars == {Base64Alphabet[i] : i \in 1..Len(Base64Alphabet)}
Base64Index ==
    [c \in Base64Chars |-> CHOOSE i \in 0..(Len(Base64Alphabet) - 1) : Base64Alphabet[i + 1] = c]
B64(n) == Base64Alphabet[n + 1]
PadChar == "="

\* base64.StdEncoding.EncodeToString
RECURSIVE base64EncodeToString(_)
base64EncodeToString(b) ==
    IF Len(b) = 0 THEN <<>>
    ELSE IF Len(b) = 1
    THEN <<B64(b[1] \div 4), B64((b[1] % 4) * 16), PadChar, PadChar>>
    ELSE IF Len(b) = 2
    THEN <<B64(b[1] \div 4), B64((b[1] % 4) * 16 + b[2] \div 16),
           B64((b[2] % 16) * 4), PadChar>>
    ELSE <<B64(b[1] \div 4), B64((b[1] % 4) * 16 + b[2] \div 16),
           B64((b[2] % 16) * 4 + b[3] \div 64), B64(b[3] % 64)>>
         \o base64EncodeToString(SubSeq(b, 4, Len(b)))

IsNewline(c) == c \in {"\n", "\r"}
NotNewline(c) == ~IsNewline(c)
DecodeError == [ok |-> FALSE, bytes |-> <<>>]

\* The quanta of four characters of a base64 string without line breaks.
\* Padding is accepted in the last quantum only; the unused low bits of a
\* padded quantum are not checked.
RECURSIVE DecodeQuanta(_)
DecodeQuanta(s) ==
    IF s = <<>> THEN [ok |-> TRUE, bytes |-> <<>>]
    ELSE LET q == SubSeq(s, 1, 4)
             rest == SubSeq(s, 5, Len(s))
             v(i) == Base64Index[q[i]]
         IN  IF \A i \in 1..4 : q[i] \in Base64Chars
             THEN LET r == DecodeQuanta(rest)
                  IN  [ok |-> r.ok,
                       bytes |-> <<v(1) * 4 + v(2) \div 16,
                                   (v(2) % 16) * 16 + v(3) \div 4,
                                   (v(3) % 4) * 64 + v(4)>> \o r.bytes]
             ELSE IF /\ rest = <<>>
                     /\ q[1] \in Base64Chars /\ q[2] \in Base64Chars
                     /\ q[3] = PadChar /\ q[4] = PadChar
             THEN [ok |-> TRUE, bytes |-> <<v(1) * 4 + v(2) \div 16>>]
             ELSE IF /\ rest = <<>>
                     /\ q[1] \in Base64Chars /\ q[2] \in Base64Chars
                     /\ q[3] \in Base64Chars /\ q[4] = PadChar
             THEN [ok |-> TRUE, bytes |-> <<v(1) * 4 + v(2) \div 16,
                                            (v(2) % 16) * 16 + v(3) \div 4>>]
             ELSE DecodeError

\* base64.StdEncoding.DecodeString: line breaks are skipped, the rest must
\* be whole quanta.
base64DecodeString(s) ==
    LET t == SelectSeq(s, NotNewline)
    IN  IF Len(t) % 4 # 0 THEN DecodeError ELSE DecodeQuanta(t)

\* strings.ReplaceAll for a non-empty old.
RECURSIVE ReplaceAll(_, _, _)
ReplaceAll(s, old, new) ==
    IF Len(s) < Len(old) THEN s
    ELSE IF SubSeq(s, 1, Len(old)) = old
    THEN new \o ReplaceAll(SubSeq(s, Len(old) + 1, Len(s)), old, new)
    ELSE <<s[1]>> \o ReplaceAll(Tail(s), old, new)

DigitChars == {"0","1","2","3","4","5","6","7","8","9"}
\* The characters url.QueryEscape leaves alone.
Unreserved ==
    {UpperChars[i] : i \in 1..26} \cup {LowerChars[i] : i \in 1..26}
        \cup DigitChars \cup {"-", "_", ".", "~"}
\* Percent-encodings of the other characters that occur in the model.
PercentOf ==
    [c \in {" ", "+", "%", ":", "\\", "/", "'"} |->
        CASE c = " "  -> <<"%", "2", "0">>
          [] c = "+"  -> <<"%", "2", "B">>
          [] c = "%"  -> <<"%", "2", "5">>
          [] c = ":"  -> <<"%", "3", "A">>
          [] c = "\\" -> <<"%", "5", "C">>
          [] c = "/"  -> <<"%", "2", "F">>
          [] c = "'"  -> <<"%", "2", "7">>]

\* url.QueryEscape
RECURSIVE QueryEscape(_)
QueryEscape(s) ==
    IF s = <<>> THEN <<>>
    ELSE (IF s[1] \in Unreserved THEN <<s[1]>>
          ELSE IF s[1] = " " THEN <<"+">>
          ELSE PercentOf[s[1]]) \o QueryEscape(Tail(s))

\* encodeHeaderValue without the replacement of '+'.
encodeHeaderValuePlain(s) == QueryEscape(s)

encodeHeaderValue(s) == ReplaceAll(QueryEscape(s), <<"+">>, <<"%", "2", "0">>)

\* decodeURIComponent (JavaScript), as the editor applies it to X-File-Name.
RECURSIVE decodeURIComponent(_)
decodeURIComponent(s) ==
    IF s = <<>> THEN <<>>
    ELSE IF s[1] = "%" /\ Len(s) >= 3
                       /\ \E c \in DOMAIN PercentOf : PercentOf[c] = SubSeq(s, 1, 3)
    THEN <<CHOOSE c \in DOMAIN PercentOf : PercentOf[c] = SubSeq(s, 1, 3)>>
         \o decodeURIComponent(SubSeq(s, 4, Len(s)))
    ELSE <<s[1]>> \o decodeURIComponent(Tail(s))

\* A path as the string the program holds.
RECURSIVE PathString(_)
PathString(p) ==
    IF p = <<>> THEN <<>>
    ELSE IF Len(p) = 1 THEN p[1]
    ELSE p[1] \o Separator \o PathString(Tail(p))

(***************************************************************************)
(* generateID                                                              *)
(***************************************************************************)
\* Bound: IDs generated by one process.
MaxIDs == 2

IDBytes == 8

\* rand.Read(b): the n-th draw of 8 bytes from the system's random source.
\* Distinct draws are taken to differ: a repeat has probability 2^-64.
RandomBytes(n) == [i \in 1..IDBytes |-> (n * 151 + i * 37) % 256]

generateID(n) == hexEncodeToString(RandomBytes(n))

NoID == <<>>

(***************************************************************************)
(* Render store and the export handlers                                    *)
(***************************************************************************)
\* Bound: export requests served at the same time.
MaxExports == 2
ExportSlots == 1..MaxExports

EmptyHtml == <<>>
HtmlDocs == {<<"h", "1">>, <<"h", "2">>}

VARIABLES
    renderStore,   \* token -> HTML
    export,        \* per slot: the export request being served
    tokensDrawn,   \* number of tokens generated
    lastView       \* the answer to the last GET /api/render-view
renderVars == <<renderStore, export, tokensDrawn, lastView>>

\* context.WithTimeout(allocCtx, 30*time.Second) and 60*time.Second.
ScreenshotTimeout == 30
PdfTimeout == 60

\* Time is counted, per request, in units of the screenshot timeout.
Deadline(kind) ==
    IF kind = "pdf" THEN PdfTimeout \div ScreenshotTimeout ELSE 1

\* The context of chromedp.Run is done: its deadline has passed.
DeadlineReachedAtOnce(elapsed, kind) == TRUE

DeadlineReached(elapsed, kind) == elapsed >= Deadline(kind)

\* elapsed: time since the context of the running render was made; cause: what the answer
\* reports ("badRequest", "driver", "deadline", "write", "none").
IdleExport == [pc |-> "idle", kind |-> "none", token |-> NoID,
               html |-> EmptyHtml, status |-> 0, elapsed |-> 0, cause |-> "none",
               target |-> "untouched"]

\* An export handler that starts the headless browser before the HTML is
\* stored under the token.
renderStorePutLate(store, token, html) == store

\* renderStore[token] = req.Html
renderStorePut(store, token, html) ==
    [t \in DOMAIN store \cup {token} |-> IF t = token THEN html ELSE store[t]]

\* An export handler that returns without removing its token.
deferredDeleteSkipped(store, token) == store

\* defer func() { delete(renderStore, token) }()
deferredDelete(store, token) ==
    [t \in DOMAIN store \ {token} |-> store[t]]

InFlight == {s \in ExportSlots : export[s].pc \in {"rendering", "writing"}}
InFlightTokens == {export[s].token : s \in InFlight}
DrawnTokens == {generateID(n) : n \in 1..tokensDrawn}

\* GET /api/render-view?token=...
RenderView(token) ==
    /\ lastView' = IF token \in DOMAIN renderStore
                   THEN [token |-> token, status |-> 200, body |-> renderStore[token]]
                   ELSE [token |-> token, status |-> 404, body |-> <<>>]
    /\ UNCHANGED <<renderStore, export, tokensDrawn>>

\* POST /api/export/screenshot and /api/export/pdf up to the start of the
\* render driver.  valid = FALSE: the body does not decode, the HTML is
\* empty or (PDF) the path is empty; the answer is 400 and no token is made.
ExportStart(s, kind, html, valid) ==
    /\ export[s].pc = "idle"
    /\ IF valid /\ html # EmptyHtml
       THEN /\ tokensDrawn < MaxIDs
            /\ LET token == generateID(tokensDrawn + 1)
               IN  /\ renderStore' = renderStorePut(renderStore, token, html)
                   /\ export' = [export EXCEPT ![s] =
                         [pc |-> "rendering", kind |-> kind, token |-> token,
                          html |-> html, status |-> 0, elapsed |-> 0,
                          cause |-> "none", target |-> "untouched"]]
            /\ tokensDrawn' = tokensDrawn + 1
       ELSE /\ export' = [export EXCEPT ![s] =
                  [pc |-> "returned", kind |-> kind, token |-> NoID,
                   html |-> EmptyHtml, status |-> 400, elapsed |-> 0,
                   cause |-> "badRequest", target |-> "untouched"]]
            /\ UNCHANGED <<renderStore, tokensDrawn>>
    /\ UNCHANGED lastView

\* Time passes while chromedp.Run is running.
ExportTick(s) ==
    /\ export[s].pc = "rendering"
    /\ export[s].elapsed < Deadline(export[s].kind)
    /\ export' = [export EXCEPT ![s].elapsed = @ + 1]
    /\ UNCHANGED <<renderStore, tokensDrawn, lastView>>

\* chromedp.Run ends: "ok", "error", or "deadline" (30 s / 60 s context).
\* A failure is answered 500 and the handler returns; a screenshot is
\* answered 200 and the handler returns; a PDF goes on to os.WriteFile.
ExportRender(s, outcome) ==
    /\ export[s].pc = "rendering"
    /\ outcome = "deadline" =>
          DeadlineReached(export[s].elapsed, export[s].kind)
    /\ IF outcome = "ok" /\ export[s].kind = "pdf"
       THEN /\ export' = [export EXCEPT ![s].pc = "writing", ![s].elapsed = 0]
            /\ UNCHANGED renderStore
       ELSE /\ export' = [export EXCEPT ![s].pc = "returned",
                             ![s].html = EmptyHtml,
                             ![s].elapsed = 0,
                             ![s].status = IF outcome = "ok" THEN 200 ELSE 500,
                             ![s].cause = IF outcome = "ok" THEN "none"
                                          ELSE IF outcome = "error" THEN "driver"
                                          ELSE "deadline"]
            /\ renderStore' = deferredDelete(renderStore, export[s].token)
    /\ UNCHANGED <<tokensDrawn, lastView>>

\* os.WriteFile(req.Path, buf): the file holds the PDF ("written"), could
\* not be opened ("untouched"), or was opened and truncated and the write
\* failed ("partial").
WriteOutcomes == {"written", "untouched", "partial"}

\* The handler of /api/export/pdf answering 200 whatever os.WriteFile
\* returned.
ExportWritePdfUnchecked(s, outcome) ==
    /\ export[s].pc = "writing"
    /\ export' = [export EXCEPT ![s].pc = "returned",
                     ![s].html = EmptyHtml,
                     ![s].status = 200,
                     ![s].target = outcome]
    /\ renderStore' = deferredDelete(renderStore, export[s].token)
    /\ UNCHANGED <<tokensDrawn, lastView>>

\* os.WriteFile(req.Path, buf), the answer, and the return of the handler.
ExportWritePdf(s, outcome) ==
    /\ export[s].pc = "writing"
    /\ export' = [export EXCEPT ![s].pc = "returned",
                     ![s].html = EmptyHtml,
                     ![s].status = IF outcome = "written" THEN 200 ELSE 500,
                     ![s].cause = IF outcome = "written" THEN "none" ELSE "write",
                     ![s].target = outcome]
    /\ renderStore' = deferredDelete(renderStore, export[s].token)
    /\ UNCHANGED <<tokensDrawn, lastView>>

\* The body of the answer of an export request that has returned.
ExportBody(e) ==
    IF e.cause = "badRequest" THEN <<"bad request">>
    ELSE IF e.cause = "driver" THEN <<"Chromedp Error: ", "driver error">>
    ELSE IF e.cause = "deadline"
    THEN <<"Chromedp Error: ", "context deadline exceeded">>
    ELSE IF e.cause = "write" THEN <<"Failed to write PDF file">>
    ELSE IF e.kind = "screenshot" THEN <<"png">>
    ELSE <<>>

\* The slot takes the next request.
ExportDone(s) ==
    /\ export[s].pc = "returned"
    /\ export' = [export EXCEPT ![s] = IdleExport]
    /\ UNCHANGED <<renderStore, tokensDrawn, lastView>>

NoView == [token |-> NoID, status |-> 0, body |-> <<>>]

(***************************************************************************)
(* File store: /api/cli-handover and /api/open-file?fileId=                *)
(***************************************************************************)
\* File contents are byte sequences.  <img src='p'>
ImgTag == <<60, 105, 109, 103, 32, 115, 114, 99, 61, 39, 112, 39, 62>>
\* The bytes of the image file p, when it can be read.
ImageData == <<137>>
\* <img src='data:application/octet-stream;base64,
DataURIHead == <<60, 105, 109, 103, 32, 115, 114, 99, 61, 39, 100, 97, 116, 97, 58, 97, 112, 112, 108, 105, 99, 97, 116, 105, 111, 110, 47, 111, 99, 116, 101, 116, 45, 115, 116, 114, 101, 97, 109, 59, 98, 97, 115, 101, 54, 52, 44>>
\* '>
TagTail == <<39, 62>>

\* The byte of a base64 character.
Base64Byte(c) ==
    IF c = PadChar THEN 61
    ELSE LET i == Base64Index[c]
         IN  IF i < 26 THEN 65 + i
             ELSE IF i < 52 THEN 97 + (i - 26)
             ELSE IF i < 62 THEN 48 + (i - 52)
             ELSE IF i = 62 THEN 43 ELSE 47
StringBytes(s) == [i \in 1..Len(s) |-> Base64Byte(s[i])]

\* inlineLocalImages for documents whose image tags are ImgTag: a tag whose
\* file can be read gets the file as a data URI, any other tag stays.
inlineLocalImages(htmlContent, readable) ==
    IF readable
    THEN ReplaceAll(htmlContent, ImgTag,
                    DataURIHead \o StringBytes(base64EncodeToString(ImageData))
                        \o TagTail)
    ELSE htmlContent

IsHtmlName(fileName) == ToLower(Ext(Base(fileName))) \in {DotHtml, DotHtm}

Contents == {<<>>, <<104, 105>>, <<0, 255, 16>>, ImgTag, <<104>> \o ImgTag}
NameSpaced == <<"n", " ", "o", ".", "t", "x", "t">>
NamePlus == <<"a", "+", "b", ".", "m", "d">>
\* "aGk" is not whole quanta; "aGk=\n" carries a line break.
HandoverPayloads ==
    {[fileName |-> <<Root, NameSpaced>>, data |-> base64EncodeToString(<<0, 255, 16>>)],
     [fileName |-> <<Root, NameSpaced>>, data |-> <<"a", "G", "k">>],
     [fileName |-> <<Root, NamePlus>>, data |-> <<"a", "G", "k", "=", "\n">>],
     [fileName |-> <<Root, NamePlus>>, data |-> base64EncodeToString(ImgTag)],
     [fileName |-> <<Root, NameB>>, data |-> base64EncodeToString(<<>>)],
     [fileName |-> <<Root, NameA, FileA>>,
      data |-> base64EncodeToString(<<104>> \o ImgTag)],
     [fileName |-> <<Root, Dot, NameUpperA, FileUpperA>>,
      data |-> base64EncodeToString(ImgTag)],
     [fileName |-> <<Root, Dot, NameUpperA, FileUpperA>>,
      data |-> base64EncodeToString(<<104, 105>>)]}

\* Bound: handovers one Primary receives.
MaxHandovers == 2

VARIABLES
    fileStore,    \* ID -> FileData
    idsDrawn,     \* number of IDs generated for the file store
    sent,         \* ID -> the payload as it was posted
    lastPost,     \* the answer to the last POST /api/cli-handover
    lastGet,      \* the answer to the last GET /api/open-file
    lastOpen      \* the last GET /api/open-file request and what the disk held
storeVars == <<fileStore, idsDrawn, sent, lastPost, lastGet, lastOpen>>

\* The payload /api/cli-handover stores for a posted payload.
handoverPayload(payload, readable) ==
    LET dec == base64DecodeString(payload.data)
    IN  IF dec.ok /\ IsHtmlName(payload.fileName)
        THEN [payload EXCEPT !.data =
                 base64EncodeToString(inlineLocalImages(dec.bytes, readable))]
        ELSE payload

fileStorePut(store, id, payload) ==
    [i \in DOMAIN store \cup {id} |-> IF i = id THEN payload ELSE store[i]]

\* POST /api/cli-handover with a body that decodes.
CliHandover(payload, readable) ==
    /\ idsDrawn < MaxHandovers
    /\ LET newID == generateID(idsDrawn + 1)
       IN  /\ fileStore' = fileStorePut(fileStore, newID,
                                        handoverPayload(payload, readable))
           /\ sent' = fileStorePut(sent, newID, payload)
           /\ lastPost' = [status |-> 200, body |-> newID]
    /\ idsDrawn' = idsDrawn + 1
    /\ UNCHANGED <<lastGet, lastOpen>>

\* POST /api/cli-handover with a body that is not JSON.
CliHandoverBadBody ==
    /\ lastPost' = [status |-> 400, body |-> <<>>]
    /\ UNCHANGED <<fileStore, idsDrawn, sent, lastGet, lastOpen>>

\* GET /api/open-file?fileId=targetID in a program that hands a stored file
\* out once.
OpenFileByIDEvict(targetID) ==
    /\ lastGet' =
          IF targetID \in DOMAIN fileStore
          THEN [id |-> targetID, status |-> 200,
                body |-> base64DecodeString(fileStore[targetID].data).bytes,
                xFileName |-> encodeHeaderValue(Base(fileStore[targetID].fileName)),
                xFilePath |-> encodeHeaderValue(PathString(fileStore[targetID].fileName)),
                mimeType |-> "application/octet-stream"]
          ELSE [id |-> targetID, status |-> 404, body |-> <<>>,
                xFileName |-> <<>>, xFilePath |-> <<>>, mimeType |-> "text/plain"]
    /\ fileStore' = [i \in DOMAIN fileStore \ {targetID} |-> fileStore[i]]
    /\ UNCHANGED <<idsDrawn, sent, lastPost>>

\* GET /api/open-file?fileId=targetID
OpenFileByID(targetID) ==
    /\ lastGet' =
          IF targetID \in DOMAIN fileStore
          THEN LET data == fileStore[targetID]
                   dec == base64DecodeString(data.data)
               IN  IF ~dec.ok
                   THEN [id |-> targetID, status |-> 500, body |-> <<>>,
                         xFileName |-> <<>>, xFilePath |-> <<>>,
                         mimeType |-> "text/plain"]
                   ELSE [id |-> targetID, status |-> 200, body |-> dec.bytes,
                         xFileName |-> encodeHeaderValue(Base(data.fileName)),
                         xFilePath |-> encodeHeaderValue(PathString(data.fileName)),
                         mimeType |-> IF IsHtmlName(data.fileName)
                                      THEN "text/html"
                                      ELSE "application/octet-stream"]
          ELSE [id |-> targetID, status |-> 404, body |-> <<>>,
                xFileName |-> <<>>, xFilePath |-> <<>>, mimeType |-> "text/plain"]
    /\ UNCHANGED <<fileStore, idsDrawn, sent, lastPost>>

\* What os.ReadFile finds at the path of a request: nothing readable, or
\* the content, and whether the image file of its tag can be read.
Unreadable == [ok |-> FALSE, content |-> <<>>, img |-> FALSE]
DiskFiles ==
    {Unreadable,
     [ok |-> TRUE, content |-> <<0, 255, 16>>, img |-> FALSE],
     [ok |-> TRUE, content |-> ImgTag, img |-> TRUE]}
DotPdf == <<".", "p", "d", "f">>
DotDocx == <<".", "d", "o", "c", "x">>
FilePdf == <<"a", ".", "P", "D", "F">>
OpenPaths == {PathA, <<Root, FilePdf>>}

\* The Content-Type of a file served from the disk.
mimeType(filePath) ==
    LET ext == ToLower(Ext(Base(filePath)))
    IN  IF ext \in {DotHtml, DotHtm} THEN "text/html"
        ELSE IF ext = DotPdf THEN "application/pdf"
        ELSE IF ext = DotDocx
        THEN "application/vnd.openxmlformats-officedocument.wordprocessingml.document"
        ELSE "application/octet-stream"

\* The answer to GET /api/open-file?path=filePath.
OpenFileByPath(filePath, disk) ==
    IF filePath = NoPath
    THEN [id |-> NoID, status |-> 400, body |-> <<>>, xFileName |-> <<>>,
          xFilePath |-> <<>>, mimeType |-> "text/plain"]
    ELSE IF ~disk.ok
    THEN [id |-> NoID, status |-> 404, body |-> <<>>, xFileName |-> <<>>,
          xFilePath |-> <<>>, mimeType |-> "text/plain"]
    ELSE [id |-> NoID, status |-> 200,
          body |-> IF IsHtmlName(filePath)
                   THEN inlineLocalImages(disk.content, disk.img)
                   ELSE disk.content,
          xFileName |-> encodeHeaderValue(Base(filePath)),
          xFilePath |-> encodeHeaderValue(PathString(filePath)),
          mimeType |-> mimeType(filePath)]

\* GET /api/open-file, with the values of its path and fileId parameters
\* (sequences: a parameter can be absent).  The file store decides first
\* when the request names a stored ID.
OpenFileStoreFirst(paths, ids, disk) ==
    /\ lastOpen' = [paths |-> paths, ids |-> ids, disk |-> disk]
    /\ IF Len(ids) > 0 /\ ids[1] \in DOMAIN fileStore
       THEN OpenFileByID(ids[1])
       ELSE IF Len(paths) > 0
       THEN /\ lastGet' = OpenFileByPath(paths[1], disk)
            /\ UNCHANGED <<fileStore, idsDrawn, sent, lastPost>>
       ELSE OpenFileByID(IF Len(ids) > 0 THEN ids[1] ELSE NoID)

\* GET /api/open-file.
OpenFile(paths, ids, disk) ==
    /\ lastOpen' = [paths |-> paths, ids |-> ids, disk |-> disk]
    /\ IF Len(paths) > 0
       THEN /\ lastGet' = OpenFileByPath(paths[1], disk)
            /\ UNCHANGED <<fileStore, idsDrawn, sent, lastPost>>
       ELSE OpenFileByID(IF Len(ids) > 0 THEN ids[1] ELSE NoID)

\* The requests: no path parameter, an empty one, or a path; no fileId
\* parameter, an empty one, or an ID that was or will be generated.
OpenPathParams == {<<>>, <<NoPath>>} \cup {<<p>> : p \in OpenPaths}
OpenIDParams == {<<>>} \cup {<<IF n = 0 THEN NoID ELSE generateID(n)>> : n \in 0..MaxHandovers}

NoOpen == [paths |-> <<>>, ids |-> <<>>, disk |-> Unreadable, none |-> TRUE]
NoPost == [status |-> 0, body |-> <<>>]
NoGet == [id |-> NoID, status |-> 0, body |-> <<>>, xFileName |-> <<>>,
          xFilePath |-> <<>>, mimeType |-> "none"]

\* The Primary's own command-line file: read, inlined when it is HTML, and
\* stored under a new ID before the server starts.  A file that cannot be
\* read leaves the store empty.
PrimaryIngest(absPath, disk) ==
    /\ fileStore = <<>> /\ idsDrawn = 0
    /\ lastPost = NoPost /\ lastGet = NoGet /\ lastOpen = NoOpen
    /\ IF disk.ok
       THEN LET finalContent == IF IsHtmlName(absPath)
                                THEN inlineLocalImages(disk.content, disk.img)
                                ELSE disk.content
                initialID == generateID(idsDrawn + 1)
            IN  /\ fileStore' = fileStorePut(fileStore, initialID,
                                    [fileName |-> absPath,
                                     data |-> base64EncodeToString(finalContent)])
                /\ idsDrawn' = idsDrawn + 1
       ELSE UNCHANGED <<fileStore, idsDrawn>>
    /\ UNCHANGED <<sent, lastPost, lastGet, lastOpen>>

(***************************************************************************)
(* Start of the Primary and the exposure of file IDs                       *)
(***************************************************************************)
VARIABLES
    startup,    \* main of the Primary: ingested (the command-line file has
                \* been dealt with), serving (http.Serve runs), launched (the
                \* delayed browser launch was made), initialID
    exposed,    \* the IDs given out: in a handover response or a browser URL
    hoPending   \* a handover whose store write is done and whose browser
                \* launch and response are not: its ID, else NoID
exposeVars == <<startup, exposed, hoPending>>

NotStarted == [ingested |-> FALSE, serving |-> FALSE, launched |-> FALSE,
               initialID |-> NoID]

\* main, lines 414-439: without an argument, or with a file that cannot be
\* read, initialID stays empty; else the file is stored under initialID.
StartIngest(hasArg, absPath, disk) ==
    /\ ~startup.ingested
    /\ IF hasArg
       THEN PrimaryIngest(absPath, disk)
       ELSE UNCHANGED storeVars
    /\ startup' = [startup EXCEPT !.ingested = TRUE,
                      !.initialID = IF hasArg /\ disk.ok
                                    THEN generateID(idsDrawn + 1) ELSE NoID]
    /\ UNCHANGED <<exposed, hoPending>>

\* go http.Serve(listener, nil)
StartServe ==
    /\ startup.ingested /\ ~startup.serving
    /\ startup' = [startup EXCEPT !.serving = TRUE]
    /\ UNCHANGED <<exposed, hoPending>>
    /\ UNCHANGED storeVars

\* The goroutine that opens the browser 200 ms after the start, at
\* /?fileId=initialID when there is an initial file.
StartBrowser ==
    /\ startup.ingested /\ ~startup.launched
    /\ startup' = [startup EXCEPT !.launched = TRUE]
    /\ exposed' = IF startup.initialID # NoID
                  THEN exposed \cup {startup.initialID} ELSE exposed
    /\ UNCHANGED hoPending
    /\ UNCHANGED storeVars

\* /api/cli-handover in a program that starts the browser on the new ID
\* before it writes the store.
CliHandoverLaunchFirst(payload, readable) ==
    /\ startup.serving
    /\ hoPending = NoID
    /\ idsDrawn < MaxHandovers
    /\ exposed' = exposed \cup {generateID(idsDrawn + 1)}
    /\ hoPending' = generateID(idsDrawn + 1)
    /\ idsDrawn' = idsDrawn + 1
    /\ UNCHANGED <<fileStore, sent, lastPost, lastGet, lastOpen, startup>>

\* /api/cli-handover up to the end of the store write (lines 512-531).
CliHandoverStore(payload, readable) ==
    /\ startup.serving
    /\ hoPending = NoID
    /\ idsDrawn < MaxHandovers
    /\ LET newID == generateID(idsDrawn + 1)
       IN  /\ fileStore' = fileStorePut(fileStore, newID,
                                        handoverPayload(payload, readable))
           /\ sent' = fileStorePut(sent, newID, payload)
           /\ hoPending' = newID
    /\ idsDrawn' = idsDrawn + 1
    /\ UNCHANGED <<lastPost, lastGet, lastOpen, startup, exposed>>

\* /api/cli-handover from the browser goroutine to the response (533-539).
CliHandoverAnswer ==
    /\ hoPending # NoID
    /\ exposed' = exposed \cup {hoPending}
    /\ lastPost' = [status |-> 200, body |-> hoPending]
    /\ hoPending' = NoID
    /\ UNCHANGED <<fileStore, idsDrawn, sent, lastGet, lastOpen, startup>>

\* A browser that was given an ID fetches the file.
FetchExposed(id) ==
    /\ startup.serving
    /\ id \in exposed
    /\ OpenFile(<<>>, <<id>>, Unreadable)
    /\ UNCHANGED exposeVars

(***************************************************************************)
(* The editor session (App.tsx) and its lock requests                      *)
(***************************************************************************)
\* Bound: requests of one kind for one path sent and not yet served.
MaxPending == 1
\* Bound: requests of the session sent and not yet served, of all kinds.
MaxOutstanding == 2

\* The documents the session opens, and the paths a save can move them to.
EdOpenPaths == {PathA, <<Root, NameSpaced>>}
EdSaveAsPaths == {PathB}
EdDocPaths == {PathA, PathB} \cup {finalHtmlPath(p, h) : p \in {PathA, PathB}, h \in BOOLEAN}
EdRequests == [op : {"lock", "unlock"}, path : EdDocPaths]

VARIABLES
    isDirty,        \* useState(false)
    fileSource,     \* "NEW", "PATH" or "IMPORTED"
    originalPath,   \* the disk path of a PATH document, NoPath for null
    edPc,           \* the handler that is waiting: "idle", "dialog", "loading",
                    \* "saving", "savingAs", "autoSaving"
    edPath,         \* the path that handler keeps
    pending,        \* lock and unlock requests sent and not yet served
    fileName,       \* useState('untitled.html')
    lastSave        \* the last Save or Save As: the document's identity when
                    \* it was invoked, whether no lock or unlock request was
                    \* outstanding then, and how it ended
edVars == <<isDirty, fileSource, originalPath, edPc, edPath, pending,
            fileName, lastSave>>

Untitled == <<"u", "n", "t", "i", "t", "l", "e", "d">> \o DotHtml
\* path.split(/[/\\]/).pop()
NameOfPath(path) == Base(path)
\* name.replace(/\.[^/.]+$/, "") + ".html"
ImportedName(name) == TrimSuffix(name, Ext(name)) \o DotHtml

NoIdentity == [path |-> NoPath, name |-> <<>>, source |-> "NEW", dirty |-> FALSE]
NoSave == [kind |-> "none", done |-> FALSE, ok |-> FALSE, quiet |-> FALSE,
           before |-> NoIdentity, returned |-> NoPath,
           dialog |-> FALSE, toast |-> FALSE]
\* The document's identity in the current render.
Identity == [path |-> originalPath, name |-> fileName, source |-> fileSource,
             dirty |-> isDirty]

\* unlockFileAPI(originalPath) guarded by `if (originalPath)`.
UnlockOf(path) ==
    IF path # NoPath THEN {[op |-> "unlock", path |-> path]} ELSE {}

\* The dirty-state effect: after a render in which isDirty, fileSource or
\* originalPath changed, a dirty PATH document sends lockFileAPI.
EffectLock(dirty, source, path) ==
    IF /\ <<dirty, source, path>> # <<isDirty, fileSource, originalPath>>
       /\ dirty /\ source = "PATH" /\ path # NoPath
    THEN {[op |-> "lock", path |-> path]}
    ELSE {}

\* A render with the new state; `extra` are the requests the handler sent.
SetState(dirty, source, path, extra) ==
    /\ isDirty' = dirty
    /\ fileSource' = source
    /\ originalPath' = path
    /\ LET reqs == extra \cup EffectLock(dirty, source, path)
       IN  /\ \A r \in reqs : pending[r] < MaxPending
           /\ SumOver(pending, EdRequests) + Cardinality(reqs) <= MaxOutstanding
           /\ pending' = [r \in EdRequests |->
                             IF r \in reqs THEN pending[r] + 1 ELSE pending[r]]

\* onUpdate: the first edit of a clean document.
EdUpdate ==
    /\ ~isDirty
    /\ SetState(TRUE, fileSource, originalPath, {})
    /\ lastSave' = NoSave
    /\ UNCHANGED <<edPc, edPath, fileName>>
    /\ UNCHANGED lockVars

\* handleNewFile; confirm is the answer to "Discard changes?".  Nothing
\* disables the command while handleSaveFile or performSaveAs awaits the
\* save-file response, so it also runs between the request and the response.
EdNewFile(confirm) ==
    /\ edPc \in {"idle", "saving", "savingAs", "autoSaving"}
    /\ IF isDirty /\ ~confirm
       THEN UNCHANGED edVars
       ELSE /\ SetState(FALSE, "NEW", NoPath, UnlockOf(originalPath))
            /\ fileName' = Untitled
            /\ lastSave' = NoSave
            /\ UNCHANGED <<edPc, edPath>>
    /\ UNCHANGED lockVars

\* handleOpenFile up to the request for the Open dialog.
EdOpenFile(confirm) ==
    /\ edPc = "idle"
    /\ IF isDirty /\ ~confirm
       THEN UNCHANGED edVars
       ELSE /\ SetState(isDirty, fileSource, originalPath, UnlockOf(originalPath))
            /\ edPc' = "dialog"
            /\ lastSave' = NoSave
            /\ UNCHANGED <<edPath, fileName>>
    /\ UNCHANGED lockVars

\* The Open dialog answers: a path, or NoPath when the user cancelled or the
\* dialog failed.
EdDialogAnswer(path) ==
    /\ edPc = "dialog"
    /\ edPc' = IF path = NoPath THEN "idle" ELSE "loading"
    /\ edPath' = path
    /\ UNCHANGED <<isDirty, fileSource, originalPath, pending, fileName, lastSave>>
    /\ UNCHANGED lockVars

\* /api/open-file?path= answers.  An HTML file becomes a clean PATH
\* document, any other file a dirty IMPORTED one; a failure changes nothing.
EdLoaded(ok) ==
    /\ edPc = "loading"
    /\ (ok /\ getLockKey(edPath) \in FileKeys) => fsState[getLockKey(edPath)] = "ok"
    /\ IF ~ok
       THEN UNCHANGED <<isDirty, fileSource, originalPath, pending, fileName>>
       ELSE IF IsHtmlName(edPath)
       THEN /\ SetState(FALSE, "PATH", edPath, {})
            /\ fileName' = NameOfPath(edPath)
       ELSE /\ SetState(TRUE, "IMPORTED", NoPath, {})
            /\ fileName' = ImportedName(NameOfPath(edPath))
    /\ edPc' = "idle"
    /\ edPath' = NoPath
    /\ UNCHANGED lastSave
    /\ UNCHANGED lockVars

\* handleSaveFile for a PATH document (Ctrl+S or the autosave timer): the
\* save-file request is posted.
EdSave(hasAssets, accepted) ==
    /\ edPc = "idle"
    /\ fileSource = "PATH" /\ originalPath # NoPath
    /\ SaveStart(1, originalPath, hasAssets, accepted)
    /\ edPc' = IF accepted THEN "saving" ELSE "idle"
    /\ lastSave' = [kind |-> "save", done |-> ~accepted, ok |-> FALSE,
                    quiet |-> \A r \in EdRequests : pending[r] = 0,
                    before |-> Identity, returned |-> NoPath,
                    dialog |-> FALSE, toast |-> ~accepted]
    /\ UNCHANGED <<isDirty, fileSource, originalPath, edPath, pending, fileName>>

\* An auto-save timer that fires whatever the document's state is.
EdAutoSaveAlways(hasAssets, accepted) ==
    /\ edPc = "idle"
    /\ originalPath # NoPath
    /\ SaveStart(1, originalPath, hasAssets, accepted)
    /\ edPc' = IF accepted THEN "autoSaving" ELSE "idle"
    /\ lastSave' = [kind |-> "auto", done |-> ~accepted, ok |-> FALSE,
                    quiet |-> \A r \in EdRequests : pending[r] = 0,
                    before |-> Identity, returned |-> NoPath,
                    dialog |-> FALSE, toast |-> FALSE]
    /\ UNCHANGED <<isDirty, fileSource, originalPath, edPath, pending, fileName>>

\* The auto-save interval fires: handleSaveFile(true) for a dirty PATH
\* document.  A silent save opens no dialog and shows no toast; without an
\* originalPath it falls through and does nothing.
EdAutoSave(hasAssets, accepted) ==
    /\ edPc = "idle"
    /\ isDirty /\ fileSource = "PATH"
    /\ originalPath # NoPath
    /\ SaveStart(1, originalPath, hasAssets, accepted)
    /\ edPc' = IF accepted THEN "autoSaving" ELSE "idle"
    /\ lastSave' = [kind |-> "auto", done |-> ~accepted, ok |-> FALSE,
                    quiet |-> \A r \in EdRequests : pending[r] = 0,
                    before |-> Identity, returned |-> NoPath,
                    dialog |-> FALSE, toast |-> FALSE]
    /\ UNCHANGED <<isDirty, fileSource, originalPath, edPath, pending, fileName>>

\* performSaveAs: the Save dialog answers with a path (NoPath: cancelled),
\* the document takes it, and the save-file request is posted.
EdSaveAs(path, hasAssets, accepted) ==
    /\ edPc = "idle"
    /\ IF path = NoPath
       THEN UNCHANGED edVars /\ UNCHANGED lockVars
       ELSE /\ SetState(isDirty, "PATH", path, {})
            /\ fileName' = NameOfPath(path)
            /\ lastSave' = [kind |-> "saveAs", done |-> ~accepted, ok |-> FALSE,
                            quiet |-> \A r \in EdRequests : pending[r] = 0,
                            before |-> Identity, returned |-> NoPath,
                            dialog |-> TRUE, toast |-> ~accepted]
            /\ SaveStart(1, path, hasAssets, accepted)
            /\ edPc' = IF accepted THEN "savingAs" ELSE "idle"
            /\ edPath' = IF accepted THEN originalPath ELSE NoPath

\* The save-file response arrives.
EdSaveResponse ==
    /\ edPc \in {"saving", "savingAs", "autoSaving"}
    /\ saveReq[1].pc \in {"saved", "failed"}
    /\ SaveDone(1)
    /\ IF saveReq[1].pc = "saved"
       THEN LET final == saveReq[1].final
            IN  SetState(FALSE, fileSource, AdoptPath(originalPath, 200, final),
                         IF edPc = "savingAs" /\ edPath # final
                         THEN UnlockOf(edPath) ELSE {})
       ELSE UNCHANGED <<isDirty, fileSource, originalPath, pending>>
    /\ fileName' = IF saveReq[1].pc = "saved"
                   THEN NameOfPath(saveReq[1].final) ELSE fileName
    /\ lastSave' = [lastSave EXCEPT
                       !.done = TRUE,
                       !.ok = saveReq[1].pc = "saved",
                       !.returned = IF saveReq[1].pc = "saved"
                                    THEN saveReq[1].final ELSE NoPath,
                       !.toast = edPc # "autoSaving"]
    /\ edPc' = "idle"
    /\ edPath' = NoPath

\* The process serves a lock or unlock request of the session.
EdServe(r) ==
    /\ pending[r] > 0
    /\ IF r.op = "lock" THEN LockRequest(r.path) ELSE UnlockRequest(r.path)
    /\ pending' = [pending EXCEPT ![r] = @ - 1]
    /\ UNCHANGED <<isDirty, fileSource, originalPath, edPc, edPath, fileName,
                   lastSave>>

(***************************************************************************)
(* The tray message loop (runTrayApp) and the end of main                  *)
(***************************************************************************)
VARIABLES
    trayPc,      \* "loop": in the message loop; "menu": wndProc waits in
                 \* TrackPopupMenu; "ended": the loop has been left;
                 \* "iconDeleted"; "swept"; "returned": main has returned
    quitPosted,  \* PostQuitMessage has been called and WM_QUIT not yet read
    trayLog,     \* the steps of the shutdown in the order they happened
    shellUp,     \* the shell (Explorer) runs and has a taskbar
    icon,        \* the icon the shell shows for this process, or NoIcon
    taskbarMsgs, \* TaskbarCreated messages queued for the tray window
    hMenus,      \* popup menu handles created and not destroyed
    trayEvent    \* the tray message handled last, and whether its handler
                 \* called openDefaultBrowser(url)
shellVars == <<shellUp, icon, taskbarMsgs>>
menuVars == <<hMenus, trayEvent>>
trayVars == <<trayPc, quitPosted, trayLog, shellVars, menuVars>>
NoTrayEvent == [msg |-> "none", nav |-> FALSE]

\* Bound: TaskbarCreated messages waiting in the queue.
MaxTaskbarMsgs == 2

\* The NOTIFYICONDATA that addTrayIcon fills in.
WM_TRAY == 1025
TrayIconID == 100
NoIcon == [hWnd |-> "none", uID |-> 0, uCallbackMessage |-> 0]
nid == [hWnd |-> "hwnd", uID |-> TrayIconID, uCallbackMessage |-> WM_TRAY]

\* addTrayIcon(): Shell_NotifyIcon(NIM_ADD, &nid).  The shell takes the icon
\* when it runs and does not show one for this window and id already.
addTrayIcon(shown, up) ==
    IF up /\ shown = NoIcon THEN nid ELSE shown

\* The shell crashes or is ended: its taskbar and the icons on it are gone.
ShellCrash ==
    /\ shellUp
    /\ shellUp' = FALSE
    /\ icon' = NoIcon
    /\ UNCHANGED <<taskbarMsgs, trayPc, quitPosted, trayLog>>
    /\ UNCHANGED lockVars
    /\ UNCHANGED menuVars

\* The shell starts and broadcasts TaskbarCreated to the top-level windows.
ShellStart ==
    /\ ~shellUp
    /\ taskbarMsgs < MaxTaskbarMsgs
    /\ shellUp' = TRUE
    /\ taskbarMsgs' = IF phase # "exited" /\ trayPc \in {"loop", "menu"}
                      THEN taskbarMsgs + 1 ELSE taskbarMsgs
    /\ UNCHANGED <<icon, trayPc, quitPosted, trayLog>>
    /\ UNCHANGED lockVars
    /\ UNCHANGED menuVars

\* wndProc passing TaskbarCreated on to DefWindowProc.
TrayTaskbarCreatedDefault ==
    /\ phase # "exited"
    /\ trayPc \in {"loop", "menu"}
    /\ taskbarMsgs > 0
    /\ taskbarMsgs' = taskbarMsgs - 1
    /\ UNCHANGED <<icon, shellUp, trayPc, quitPosted, trayLog>>
    /\ UNCHANGED lockVars
    /\ UNCHANGED menuVars

\* wndProc receives TaskbarCreated (from the message loop, or from the modal
\* loop of an open menu): addTrayIcon().
TrayTaskbarCreated ==
    /\ phase # "exited"
    /\ trayPc \in {"loop", "menu"}
    /\ taskbarMsgs > 0
    /\ taskbarMsgs' = taskbarMsgs - 1
    /\ icon' = addTrayIcon(icon, shellUp)
    /\ UNCHANGED <<shellUp, trayPc, quitPosted, trayLog>>
    /\ UNCHANGED lockVars
    /\ UNCHANGED menuVars

\* PostQuitMessage(0)
PostQuit ==
    /\ quitPosted' = TRUE
    /\ trayLog' = IF trayLog = <<>> THEN <<"quit">> ELSE trayLog

\* WM_TRAY with WM_LBUTTONUP or WM_LBUTTONDBLCLK: openDefaultBrowser(url).
TrayLeftClick ==
    /\ phase # "exited"
    /\ trayPc = "loop"
    /\ trayEvent' = [msg |-> "lclick", nav |-> TRUE]
    /\ UNCHANGED <<trayPc, quitPosted, trayLog, shellVars, hMenus>>
    /\ UNCHANGED lockVars

\* WM_TRAY with WM_RBUTTONUP or WM_RBUTTONDBLCLK: the popup menu is created
\* and shown (created = FALSE: CreatePopupMenu returns 0 and wndProc returns).
TrayRightClick(created) ==
    /\ phase # "exited"
    /\ trayPc = "loop"
    /\ trayEvent' = [msg |-> "rclick", nav |-> FALSE]
    /\ IF created
       THEN /\ hMenus' = hMenus + 1
            /\ trayPc' = "menu"
       ELSE UNCHANGED <<hMenus, trayPc>>
    /\ UNCHANGED <<quitPosted, trayLog, shellVars>>
    /\ UNCHANGED lockVars

\* What the handler does with the result of TrackPopupMenu.
MenuChoice(res) ==
    [msg |-> IF res = 1 THEN "open" ELSE IF res = 2 THEN "exit" ELSE "dismiss",
     nav |-> res = 1]

\* TrayMenuReturn in a handler that does not destroy the menu.
TrayMenuReturnLeak(res) ==
    /\ phase # "exited"
    /\ trayPc = "menu"
    /\ trayPc' = "loop"
    /\ trayEvent' = MenuChoice(res)
    /\ IF res = 2 THEN PostQuit ELSE UNCHANGED <<quitPosted, trayLog>>
    /\ UNCHANGED <<shellVars, hMenus>>
    /\ UNCHANGED lockVars

\* TrackPopupMenu returns res: 0 (dismissed), 1 (Open Editor), 2 (Exit);
\* wndProc returns and the deferred DestroyMenu(hMenu) runs.
TrayMenuReturn(res) ==
    /\ phase # "exited"
    /\ trayPc = "menu"
    /\ trayPc' = "loop"
    /\ trayEvent' = MenuChoice(res)
    /\ hMenus' = hMenus - 1
    /\ IF res = 2 THEN PostQuit ELSE UNCHANGED <<quitPosted, trayLog>>
    /\ UNCHANGED shellVars
    /\ UNCHANGED lockVars

\* WM_DESTROY is dispatched to the tray window (also by the modal loop of
\* the menu).
TrayDestroy ==
    /\ phase # "exited"
    /\ trayPc \in {"loop", "menu"}
    /\ ~quitPosted
    /\ PostQuit
    /\ UNCHANGED <<trayPc, shellVars>>
    /\ UNCHANGED lockVars
    /\ UNCHANGED menuVars

\* TrayLoopEnd with the process ended as soon as the loop is left.
TrayLoopEndExits ==
    /\ phase # "exited"
    /\ trayPc = "loop"
    /\ quitPosted
    /\ trayPc' = "returned"
    /\ quitPosted' = FALSE
    /\ trayLog' = trayLog \o <<"loopEnd", "terminate">>
    /\ phase' = "exited"
    /\ UNCHANGED shellVars
    /\ UNCHANGED <<activeFileHandles, openHandles, fsState, saveReq, lastOp>>
    /\ UNCHANGED menuVars

\* GetMessage reads WM_QUIT and returns 0: the loop is left.
TrayLoopEnd ==
    /\ phase # "exited"
    /\ trayPc = "loop"
    /\ quitPosted
    /\ trayPc' = "ended"
    /\ quitPosted' = FALSE
    /\ trayLog' = Append(trayLog, "loopEnd")
    /\ UNCHANGED shellVars
    /\ UNCHANGED lockVars
    /\ UNCHANGED menuVars

\* Shell_NotifyIcon(NIM_DELETE)
TrayIconDelete ==
    /\ phase # "exited"
    /\ trayPc = "ended"
    /\ trayPc' = "iconDeleted"
    /\ trayLog' = Append(trayLog, "iconRemoved")
    /\ icon' = NoIcon
    /\ UNCHANGED <<quitPosted, shellUp, taskbarMsgs>>
    /\ UNCHANGED lockVars
    /\ UNCHANGED menuVars

\* unlockAll() at the end of runTrayApp
TraySweep ==
    /\ phase # "exited"
    /\ trayPc = "iconDeleted"
    /\ LET res == unlockAll(activeFileHandles, openHandles)
       IN  /\ activeFileHandles' = res.reg
           /\ openHandles' = res.open
           /\ saveReq' = Disturbed(saveReq, activeFileHandles, res.reg, 0)
    /\ lastOp' = [op |-> "sweep", status |-> 0, exists |-> activeFileHandles # {}]
    /\ trayPc' = "swept"
    /\ trayLog' = Append(trayLog, "sweep")
    /\ UNCHANGED <<quitPosted, fsState, phase, shellVars>>
    /\ UNCHANGED menuVars

\* runTrayApp returns and main returns: the process terminates.
TrayReturn ==
    /\ phase # "exited"
    /\ trayPc = "swept"
    /\ trayPc' = "returned"
    /\ trayLog' = Append(trayLog, "terminate")
    /\ phase' = "exited"
    /\ UNCHANGED <<quitPosted, shellVars>>
    /\ UNCHANGED <<activeFileHandles, openHandles, fsState, saveReq, lastOp>>
    /\ UNCHANGED menuVars

(***************************************************************************)
(* The HTTP server goroutine of main                                       *)
(***************************************************************************)
VARIABLES
    serveErr   \* http.Serve has returned an error
serveVars == <<serveErr>>

\* http.Serve(listener, nil) returns an error (Accept fails for good):
\* log.Fatal(err) ends the process.
ServeFatal ==
    /\ phase # "exited"
    /\ serveErr' = TRUE
    /\ phase' = "exited"
    /\ UNCHANGED <<activeFileHandles, openHandles, fsState, saveReq, lastOp>>

(***************************************************************************)
(* inlineLocalImages, tag by tag                                           *)
(***************************************************************************)
\* Bound: pieces (texts and <img> tags) of a document.
MaxPieces == 2

\* strings.HasPrefix
HasPrefix(s, pre) == Len(pre) <= Len(s) /\ SubSeq(s, 1, Len(pre)) = pre

\* strings.IndexAny, counted from 1; 0 when no character of chars occurs.
IndexAny(s, chars) ==
    IF \E i \in 1..Len(s) : s[i] \in chars
    THEN CHOOSE i \in 1..Len(s) :
            s[i] \in chars /\ \A j \in 1..(i - 1) : s[j] \notin chars
    ELSE 0

\* url.QueryUnescape on the names of the model, which hold no "%": "+"
\* becomes a space.
QueryUnescape(s) == [i \in 1..Len(s) |-> IF s[i] = "+" THEN " " ELSE s[i]]

SrcData    == <<"d", "a", "t", "a", ":">>
SrcHttp    == <<"h", "t", "t", "p", ":">>
SrcHttps   == <<"h", "t", "t", "p", "s", ":">>
SrcSlashes == <<"/", "/">>
\* http.DetectContentType of ImageData, and the text between it and the data.
MimeOctet  == <<"application/octet-stream">>
SemiBase64 == <<";", "b", "a", "s", "e", "6", "4", ",">>

\* The src values of the documents, and the files beside the document.
ImgSrcs == {SrcData \o <<"x">>, SrcHttp \o <<"x">>, SrcHttps \o <<"x">>,
            SrcSlashes \o <<"x">>, <<"p">>, <<"p", "?", "v">>,
            <<"a", "+", "b">>, <<>>}
ImageFiles == {<<"p">>, <<"a", " ", "b">>}
\* os.ReadFile fails; or the file is read and encoded; or reading and
\* encoding it panics.
FileStates == {"unreadable", "ok", "panic"}

\* A document is a sequence of pieces: the texts between the matches of
\* imgTagRe, and the matches.  hasSrc: srcRe matches in the tag.
TextPieces == {[kind |-> "text", text |-> t] : t \in {<<"h">>, <<"<", "p", ">">>}}
ImgPieces ==
    {[kind |-> "img", hasSrc |-> FALSE, quote |-> "\"", src |-> <<>>]}
    \cup {[kind |-> "img", hasSrc |-> TRUE, quote |-> q, src |-> v] :
             q \in {"\"", "'"}, v \in ImgSrcs}
Pieces == TextPieces \cup ImgPieces
Docs == UNION {[1..n -> Pieces] : n \in 1..MaxPieces}

\* The file a tag's src names: cut at "?" or "#", unescaped.
SrcFile(srcContent) ==
    LET idx == IndexAny(srcContent, {"?", "#"})
    IN  QueryUnescape(IF idx # 0 THEN SubSeq(srcContent, 1, idx - 1)
                      ELSE srcContent)

\* The tag is one the function reads a file for.
IsLocalSrc(tag) ==
    /\ tag.kind = "img"
    /\ tag.hasSrc
    /\ ~HasPrefix(tag.src, SrcData)
    /\ ~HasPrefix(tag.src, SrcHttp)
    /\ ~HasPrefix(tag.src, SrcHttps)
    /\ ~HasPrefix(tag.src, SrcSlashes)

FileState(files, name) ==
    IF name \in DOMAIN files THEN files[name] ELSE "unreadable"

\* The function passed to ReplaceAllStringFunc, on one <img> tag.
InlineTag(tag, files) ==
    IF ~IsLocalSrc(tag) THEN tag
    ELSE IF FileState(files, SrcFile(tag.src)) = "unreadable" THEN tag
    ELSE [tag EXCEPT
            !.quote = IF tag.src = <<>> THEN "'" ELSE tag.quote,
            !.src = SrcData \o MimeOctet \o SemiBase64
                       \o base64EncodeToString(ImageData)]

\* A panic is raised while the tag is handled.
PanicsOn(tag, files) ==
    IsLocalSrc(tag) /\ FileState(files, SrcFile(tag.src)) = "panic"

\* inlineLocalImages on a document.  The result is unnamed, so when the
\* deferred function recovers a panic the function returns the zero value
\* of string.
inlineLocalImagesOf(doc, files) ==
    IF \E i \in 1..Len(doc) : PanicsOn(doc[i], files)
    THEN <<>>
    ELSE [i \in 1..Len(doc) |->
            IF doc[i].kind = "img" THEN InlineTag(doc[i], files) ELSE doc[i]]

VARIABLES
    inlDoc,     \* the document read from the disk
    inlFiles,   \* the image files beside it
    inlRes,     \* what inlineLocalImages returned, and whether it recovered
    inlBody     \* the content /api/open-file answered with
inlineVars == <<inlDoc, inlFiles, inlRes, inlBody>>
NoInline == [done |-> FALSE, out |-> <<>>, recovered |-> FALSE]
NoBody == [sent |-> FALSE, content |-> <<>>]

\* /api/open-file?path= of an HTML file: content = inlineLocalImages(...).
InlineRun ==
    /\ ~inlRes.done
    /\ inlRes' = [done |-> TRUE,
                  out |-> inlineLocalImagesOf(inlDoc, inlFiles),
                  recovered |-> \E i \in 1..Len(inlDoc) :
                                   PanicsOn(inlDoc[i], inlFiles)]
    /\ UNCHANGED <<inlDoc, inlFiles, inlBody>>

\* The handler answers with the content it holds.
InlineDeliver ==
    /\ inlRes.done
    /\ ~inlBody.sent
    /\ inlBody' = [sent |-> TRUE, content |-> inlRes.out]
    /\ UNCHANGED <<inlDoc, inlFiles, inlRes>>

(***************************************************************************)
(* The dialog endpoints, and the handlers that hold no registry call       *)
(***************************************************************************)
VARIABLES
    lastDialog   \* the answer to the last /api/dialog/open or /api/dialog/save
dialogVars == <<lastDialog>>
NoDialog == [endpoint |-> "none", path |-> NoPath]

\* /api/dialog/open: DialogResponse{Path: path}; the path is empty when the
\* dialog failed or was cancelled.
DialogOpen(path) ==
    lastDialog' = [endpoint |-> "open", path |-> path]

\* /api/dialog/save
DialogSave(path) ==
    lastDialog' = [endpoint |-> "save", path |-> path]

\* A handler that locks the file it is asked about.
RegistryLockedOnRequest ==
    /\ LET res == lockFile(activeFileHandles, openHandles, fsState, PathA)
       IN  /\ activeFileHandles' = res.reg
           /\ openHandles' = res.open
    /\ UNCHANGED <<fsState, saveReq, lastOp, phase>>

\* The handlers of the dialog endpoints, cli-handover, open-file,
\* render-view and the export endpoints, and the startup ingestion, hold no
\* call of lockFile, unlockFile or unlockAll.
RegistryUntouched ==
    UNCHANGED <<activeFileHandles, openHandles, fsState, saveReq, lastOp, phase>>

(***************************************************************************)
(* prepareHtmlForSave and updateEditorImages (asset names of a save)       *)
(***************************************************************************)
\* Bound: images in the document.
MaxImages == 2
\* Bound: saves of the document one after the other.
MaxDocSaves == 2

ImagePrefix == <<"i", "m", "a", "g", "e", "_">>
SrcBlob     == <<"b", "l", "o", "b", ":">>
SrcDataImage == SrcData \o <<"i", "m", "a", "g", "e">>
SrcHttpAny  == <<"h", "t", "t", "p">>
DotSlash    == <<".", "/">>
DecimalDigits == <<"0", "1", "2", "3", "4", "5", "6", "7", "8", "9">>

\* String.prototype.includes
Includes(s, sub) ==
    \E i \in 1..(Len(s) - Len(sub) + 1) : SubSeq(s, i, i + Len(sub) - 1) = sub

\* parseInt(digits, 10) on a run of decimal digits.
RECURSIVE ParseInt(_)
ParseInt(ds) ==
    IF ds = <<>> THEN 0
    ELSE 10 * ParseInt(SubSeq(ds, 1, Len(ds) - 1))
            + (CHOOSE n \in 0..9 : DecimalDigits[n + 1] = ds[Len(ds)])

\* `${n}` for a natural number.
RECURSIVE ToDecimal(_)
ToDecimal(n) ==
    IF n < 10 THEN <<DecimalDigits[n + 1]>>
    ELSE ToDecimal(n \div 10) \o <<DecimalDigits[(n % 10) + 1]>>

\* Length of the run of digits of s that starts at position j.
RECURSIVE DigitRun(_, _)
DigitRun(s, j) ==
    IF j <= Len(s) /\ s[j] \in DigitChars THEN 1 + DigitRun(s, j + 1) ELSE 0

\* nameRegex = /(?:^|[/\\])image_(\d+)\./i matches s at position i.
NameMatchAt(s, i) ==
    /\ i = 1 \/ s[i - 1] \in {"/", "\\"}
    /\ HasPrefix(ToLower(SubSeq(s, i, Len(s))), ImagePrefix)
    /\ DigitRun(s, i + 6) >= 1
    /\ i + 6 + DigitRun(s, i + 6) <= Len(s)
    /\ s[i + 6 + DigitRun(s, i + 6)] = "."

\* parseInt(s.match(nameRegex)[1], 10), or 0 when the name does not match.
NameIndex(s) ==
    IF \E i \in 1..Len(s) : NameMatchAt(s, i)
    THEN LET i == CHOOSE k \in 1..Len(s) :
                     NameMatchAt(s, k) /\ \A j \in 1..(k - 1) : ~NameMatchAt(s, j)
         IN  ParseInt(SubSeq(s, i + 6, i + 5 + DigitRun(s, i + 6)))
    ELSE 0

\* s.split(/[/\\]/).pop()
LastSegment(s) ==
    LET cut == {i \in 1..Len(s) : s[i] \in {"/", "\\"}}
    IN  IF cut = {} THEN s
        ELSE SubSeq(s, (CHOOSE i \in cut : \A j \in cut : j <= i) + 1, Len(s))

\* The type of the blob behind each blob: URL of the model.
BlobUrlA == SrcBlob \o <<"1">>
BlobUrlB == SrcBlob \o <<"2">>
BlobTypes == (BlobUrlA :> "image/png") @@ (BlobUrlB :> "image/jpeg")
DataUrlPng == SrcDataImage \o <<"/", "p", "n", "g">> \o SemiBase64 \o <<"A">>
DataUrlJpeg == SrcDataImage \o <<"/", "j", "p", "e", "g">> \o SemiBase64 \o <<"A">>

\* ext of an image fetched from a blob: URL.
BlobExt(type) ==
    CASE type = "image/jpeg" -> <<"j", "p", "g">>
      [] type = "image/gif" -> <<"g", "i", "f">>
      [] type = "image/svg+xml" -> <<"s", "v", "g">>
      [] type = "image/webp" -> <<"w", "e", "b", "p">>
      [] OTHER -> <<"p", "n", "g">>

\* header.match(/:(.*?);/)[1], or image/png when the header has no ":...;".
DataMime(src) ==
    LET header == SubSeq(src, 1, IndexAny(src \o <<",">>, {","}) - 1)
        colon  == IndexAny(header, {":"})
        rest   == SubSeq(header, colon + 1, Len(header))
        semi   == IndexAny(rest, {";"})
    IN  IF colon = 0 \/ semi = 0
        THEN <<"i", "m", "a", "g", "e", "/", "p", "n", "g">>
        ELSE SubSeq(rest, 1, semi - 1)

\* ext of a data:image URI.
DataExt(mime) ==
    IF Includes(mime, <<"j", "p", "e", "g">>) THEN <<"j", "p", "g">>
    ELSE IF Includes(mime, <<"g", "i", "f">>) THEN <<"g", "i", "f">>
    ELSE IF Includes(mime, <<"s", "v", "g">>) THEN <<"s", "v", "g">>
    ELSE IF Includes(mime, <<"w", "e", "b", "p">>) THEN <<"w", "e", "b", "p">>
    ELSE <<"p", "n", "g">>

\* The img elements of the model: src, and data-original-src (<<>>: absent).
NameImage1Png == ImagePrefix \o <<"1", ".", "p", "n", "g">>
NameImage3Jpg == ImagePrefix \o <<"3", ".", "j", "p", "g">>
NamePhoto == <<"p", "h", "o", "t", "o", ".", "p", "n", "g">>
ImageSrcs == {BlobUrlA, BlobUrlB, DataUrlPng, DataUrlJpeg,
              DotSlash \o ImagePrefix \o <<"2", ".", "p", "n", "g">>,
              SrcHttp \o SrcSlashes \o <<"x", "/">> \o NameImage1Png}
OriginalSrcs == {<<>>, NameImage1Png, DotSlash \o NameImage3Jpg, NamePhoto}
Images == {img \in [src : ImageSrcs, orig : OriginalSrcs] :
              img.orig # <<>> => HasPrefix(img.src, SrcBlob)}
ImageDocs == UNION {[1..n -> Images] : n \in 0..MaxImages}

\* The loop of prepareHtmlForSave takes this image.
Embedded(img) == HasPrefix(img.src, SrcBlob) \/ HasPrefix(img.src, SrcDataImage)

\* Step 1 of prepareHtmlForSave: the index an image contributes to maxIndex.
ScanIndex(img) ==
    IF img.orig # <<>> THEN NameIndex(img.orig)
    ELSE IF /\ img.src # <<>>
            /\ ~HasPrefix(img.src, SrcData)
            /\ ~HasPrefix(img.src, SrcBlob)
            /\ ~HasPrefix(img.src, SrcHttpAny)
         THEN NameIndex(img.src)
         ELSE 0

RECURSIVE MaxScan(_, _)
MaxScan(doc, n) ==
    IF n = 0 THEN 0
    ELSE LET m == MaxScan(doc, n - 1)
             k == ScanIndex(doc[n])
         IN  IF k > m THEN k ELSE m

NoImageMap == <<>>
\* imageMap[src] = fileName
MapPut(map, src, name) ==
    [x \in DOMAIN map \cup {src} |-> IF x = src THEN name ELSE map[x]]

\* The second loop of prepareHtmlForSave from image i on.
RECURSIVE PrepareFrom(_, _, _)
PrepareFrom(doc, i, st) ==
    IF i > Len(doc) THEN st
    ELSE LET img == doc[i]
         IN  IF ~Embedded(img)
             THEN PrepareFrom(doc, i + 1, [st EXCEPT !.html = Append(@, img)])
             ELSE
         LET ext   == IF HasPrefix(img.src, SrcBlob)
                      THEN BlobExt(BlobTypes[img.src])
                      ELSE DataExt(DataMime(img.src))
             kept  == IF img.orig # <<>> /\ Len(LastSegment(img.orig)) >= 3
                      THEN LastSegment(img.orig) ELSE <<>>
             isNew == kept = <<>>
             index == IF isNew THEN st.maxIndex + 1 ELSE st.maxIndex
             name  == IF isNew
                      THEN ImagePrefix \o ToDecimal(index) \o Dot \o ext
                      ELSE kept
         IN  PrepareFrom(doc, i + 1,
                 [maxIndex |-> index,
                  assets |-> Append(st.assets, [fileName |-> name,
                                                data |-> img.src]),
                  imageMap |-> IF isNew THEN MapPut(st.imageMap, img.src, name)
                               ELSE st.imageMap,
                  html |-> Append(st.html, [src |-> DotSlash \o name,
                                            orig |-> name])])

prepareHtmlForSave(doc) ==
    LET st == PrepareFrom(doc, 1, [maxIndex |-> MaxScan(doc, Len(doc)),
                                   assets |-> <<>>, imageMap |-> NoImageMap,
                                   html |-> <<>>])
    IN  [html |-> st.html, assets |-> st.assets, imageMap |-> st.imageMap]

\* updateEditorImages: every image node whose src is a key of the map gets
\* the mapped name as data-original-src.
updateEditorImages(doc, imageMap) ==
    [i \in 1..Len(doc) |->
        IF doc[i].src \in DOMAIN imageMap
        THEN [doc[i] EXCEPT !.orig = imageMap[doc[i].src]]
        ELSE doc[i]]

VARIABLES
    asDoc,     \* the images of the editor's document
    asSaves,   \* the saves so far: the document before, the prepared
               \* document, and whether save-file answered ok
    asPc       \* "idle", or "posted" while the save-file request is out
assetVars == <<asDoc, asSaves, asPc>>

\* handleSaveFile / performSaveAs up to the request.
AssetsPrepare ==
    /\ asPc = "idle"
    /\ Len(asSaves) < MaxDocSaves
    /\ asSaves' = Append(asSaves, [before |-> asDoc,
                                   prepared |-> prepareHtmlForSave(asDoc),
                                   done |-> FALSE, ok |-> FALSE])
    /\ asPc' = "posted"
    /\ UNCHANGED asDoc

\* The response: `if (response.ok) { ... updateEditorImages(imageMap) ... }`.
AssetsResponse(ok) ==
    /\ asPc = "posted"
    /\ asDoc' = IF ok
                THEN updateEditorImages(asDoc, asSaves[Len(asSaves)].prepared.imageMap)
                ELSE asDoc
    /\ asSaves' = [asSaves EXCEPT ![Len(asSaves)].done = TRUE,
                                  ![Len(asSaves)].ok = ok]
    /\ asPc' = "idle"

(***************************************************************************)
(* The document write of /api/save-file, step by step                      *)
(***************************************************************************)
\* Bound: save-file requests writing the same path at the same time.
MaxWriters == 2
Writers == 1..MaxWriters

\* io.Copy moves the upload to the file in pieces of this many bytes (the
\* model's byte stands for a block of the copy buffer).
CopyChunk == 2

\* The documents of the requests.
Bodies == {<<1, 1, 1>>, <<2>>, <<3, 3>>}

VARIABLES
    docFile,   \* the bytes of the file at finalHtmlPath
    writer     \* request -> pc, the uploaded document, the offset of its
               \* file handle, the status of its answer
writeVars == <<docFile, writer>>
IdleWriter == [pc |-> "idle", body |-> <<>>, off |-> 0, status |-> 0]

Min(a, b) == IF a < b THEN a ELSE b

\* The file after a write of `bytes` at offset off through a handle opened
\* without O_APPEND: a gap beyond the end of the file reads as zeros.
WriteAt(content, off, bytes) ==
    LET end == off + Len(bytes)
        len == IF end > Len(content) THEN end ELSE Len(content)
    IN  [i \in 1..len |->
            IF i > off /\ i <= end THEN bytes[i - off]
            ELSE IF i <= Len(content) THEN content[i]
            ELSE 0]

\* os.Create(finalHtmlPath): the file is created or truncated and the
\* handle's offset is 0.  created = FALSE: the call fails, the answer is 500.
WriteCreate(w, body, created) ==
    /\ writer[w].pc = "idle"
    /\ IF created
       THEN /\ docFile' = <<>>
            /\ writer' = [writer EXCEPT ![w] =
                  [pc |-> "copying", body |-> body, off |-> 0, status |-> 0]]
       ELSE /\ writer' = [writer EXCEPT ![w] =
                  [pc |-> "returned", body |-> body, off |-> 0, status |-> 500]]
            /\ UNCHANGED docFile

\* io.Copy(outFile, htmlFile): the next piece is written at the handle's
\* offset.
WriteCopy(w) ==
    /\ writer[w].pc = "copying"
    /\ writer[w].off < Len(writer[w].body)
    /\ LET n == Min(CopyChunk, Len(writer[w].body) - writer[w].off)
           piece == SubSeq(writer[w].body, writer[w].off + 1, writer[w].off + n)
       IN  /\ docFile' = WriteAt(docFile, writer[w].off, piece)
           /\ writer' = [writer EXCEPT ![w].off = @ + n]

\* io.Copy returns, the file is closed and the request is answered: 200
\* with the path, or 500 when a write failed.
WriteReturn(w, copied) ==
    /\ writer[w].pc = "copying"
    /\ copied => writer[w].off = Len(writer[w].body)
    /\ writer' = [writer EXCEPT ![w].pc = "returned",
                     ![w].status = IF copied THEN 200 ELSE 500]
    /\ UNCHANGED docFile

(***************************************************************************)
(* The three mutexes and the handlers that take them                       *)
(***************************************************************************)
\* Bound: requests served at the same time.
MaxThreads == 3
Threads == 1..MaxThreads

Mutexes == {"fileStoreMu", "renderStoreMu", "lockMu"}

Acquire(mu, mode) == [op |-> "acquire", mu |-> mu, mode |-> mode]
Release(mu) == [op |-> "release", mu |-> mu, mode |-> "none"]
Render == [op |-> "render", mu |-> "none", mode |-> "none"]
FileIO == [op |-> "io", mu |-> "none", mode |-> "none"]

HandlerKinds == {"registry", "handover", "openFile", "renderView",
                 "screenshot", "pdf", "saveFile", "saveFileFailed"}

\* The export handlers in a program that keeps the render store locked
\* until the handler returns.
ProgramHoldsDuringRender(kind) ==
    IF kind \in {"screenshot", "pdf"}
    THEN <<Acquire("renderStoreMu", "W"), Render, Release("renderStoreMu")>>
    ELSE IF kind = "renderView"
    THEN <<Acquire("renderStoreMu", "R"), Release("renderStoreMu")>>
    ELSE <<Acquire("lockMu", "W"), Release("lockMu")>>

\* What each handler does with the mutexes, in program order.  "registry":
\* lockFile, unlockFile or unlockAll, as called by /api/file/lock,
\* /api/file/unlock, /api/kill and the end of runTrayApp.
Program(kind) ==
    IF kind = "registry"
    THEN <<Acquire("lockMu", "W"), FileIO, Release("lockMu")>>
    ELSE IF kind = "handover"
    THEN <<FileIO, Acquire("fileStoreMu", "W"), Release("fileStoreMu")>>
    ELSE IF kind = "openFile"
    THEN <<Acquire("fileStoreMu", "R"), Release("fileStoreMu")>>
    ELSE IF kind = "renderView"
    THEN <<Acquire("renderStoreMu", "R"), Release("renderStoreMu")>>
    ELSE IF kind = "screenshot"
    THEN <<Acquire("renderStoreMu", "W"), Release("renderStoreMu"), Render,
           Acquire("renderStoreMu", "W"), Release("renderStoreMu")>>
    ELSE IF kind = "pdf"
    THEN <<Acquire("renderStoreMu", "W"), Release("renderStoreMu"), Render,
           FileIO,
           Acquire("renderStoreMu", "W"), Release("renderStoreMu")>>
    ELSE IF kind = "saveFile"
    THEN <<Acquire("lockMu", "W"), Release("lockMu"), FileIO>>
    ELSE <<Acquire("lockMu", "W"), Release("lockMu"), FileIO,
           Acquire("lockMu", "W"), FileIO, Release("lockMu")>>

VARIABLES
    handler,  \* thread -> the handler it runs and the index of its next step
    waiters   \* the threads that have called Lock or RLock and wait, in the
              \* order of their calls
mutexVars == <<handler, waiters>>
IdleHandler == [kind |-> "idle", pc |-> 1]

\* The mutexes held after the first n steps of a program, with their mode.
RECURSIVE HeldAfter(_, _)
HeldAfter(prog, n) ==
    IF n = 0 THEN {}
    ELSE LET before == HeldAfter(prog, n - 1)
             step == prog[n]
         IN  IF step.op = "acquire" THEN before \cup {<<step.mu, step.mode>>}
             ELSE IF step.op = "release"
             THEN {h \in before : h[1] # step.mu}
             ELSE before

Held(t) ==
    IF handler[t].kind = "idle" THEN {}
    ELSE HeldAfter(Program(handler[t].kind), handler[t].pc - 1)

NextStep(t) == Program(handler[t].kind)[handler[t].pc]

\* sync.Mutex / sync.RWMutex: a writer needs the mutex free, a reader needs
\* it free of writers.
CanAcquire(t, mu, mode) ==
    \A u \in Threads \ {t} :
        \A h \in Held(u) : h[1] = mu => (mode = "R" /\ h[2] = "R")

Advance(t) ==
    handler' = [handler EXCEPT ![t] =
                  IF handler[t].pc = Len(Program(handler[t].kind))
                  THEN IdleHandler
                  ELSE [handler[t] EXCEPT !.pc = @ + 1]]

Waits(t) == \E i \in 1..Len(waiters) : waiters[i] = t

\* No thread that called earlier waits for the same mutex: the mutexes
\* hand over to waiters in turn (sync.Mutex in starvation mode; a waiting
\* writer of a sync.RWMutex holds back later readers).
FirstInLine(t) ==
    \A i \in 1..Len(waiters) :
        waiters[i] = t =>
            \A j \in 1..(i - 1) :
                NextStep(waiters[j]).mu # NextStep(t).mu

\* The server starts a goroutine for a request.
HandlerBegin(t, kind) ==
    /\ handler[t].kind = "idle"
    /\ handler' = [handler EXCEPT ![t] = [kind |-> kind, pc |-> 1]]
    /\ UNCHANGED waiters

\* A handler calls Lock or RLock.
HandlerCall(t) ==
    /\ handler[t].kind # "idle"
    /\ NextStep(t).op = "acquire"
    /\ ~Waits(t)
    /\ waiters' = Append(waiters, t)
    /\ UNCHANGED handler

\* A handler takes its next step, other than waiting for the render: Lock
\* or RLock returns, Unlock, or file and network I/O.
HandlerStep(t) ==
    /\ handler[t].kind # "idle"
    /\ NextStep(t).op # "render"
    /\ IF NextStep(t).op = "acquire"
       THEN /\ Waits(t)
            /\ FirstInLine(t)
            /\ CanAcquire(t, NextStep(t).mu, NextStep(t).mode)
            /\ waiters' = SelectSeq(waiters, LAMBDA u : u # t)
       ELSE UNCHANGED waiters
    /\ Advance(t)

\* chromedp.Run returns.
RenderEnd(t) ==
    /\ handler[t].kind # "idle"
    /\ NextStep(t).op = "render"
    /\ Advance(t)
    /\ UNCHANGED waiters

(***************************************************************************)
(* Specifications                                                          *)
(***************************************************************************)
vars == <<placeVars, lockVars, arbVars, renderVars, storeVars, edVars, trayVars, reqVars, exposeVars, mutexVars, writeVars, inlineVars, serveVars, assetVars, dialogVars>>
NotPlace == <<lockVars, arbVars, renderVars, storeVars, edVars, trayVars, reqVars, exposeVars, mutexVars, writeVars, inlineVars, serveVars, assetVars, dialogVars>>
NotLock == <<placeVars, arbVars, renderVars, storeVars, edVars, trayVars, reqVars, exposeVars, mutexVars, writeVars, inlineVars, serveVars, assetVars, dialogVars>>
NotArb == <<placeVars, lockVars, renderVars, storeVars, edVars, trayVars, reqVars, exposeVars, mutexVars, writeVars, inlineVars, serveVars, assetVars, dialogVars>>
NotRender == <<placeVars, lockVars, arbVars, storeVars, edVars, trayVars, reqVars, exposeVars, mutexVars, writeVars, inlineVars, serveVars, assetVars, dialogVars>>
NotStore == <<placeVars, lockVars, arbVars, renderVars, edVars, trayVars, reqVars, exposeVars, mutexVars, writeVars, inlineVars, serveVars, assetVars, dialogVars>>
NotEditor == <<placeVars, arbVars, renderVars, storeVars, trayVars, reqVars, exposeVars, mutexVars, writeVars, inlineVars, serveVars, assetVars, dialogVars>>
NotTray == <<placeVars, arbVars, renderVars, storeVars, edVars, reqVars, exposeVars, mutexVars, writeVars, inlineVars, serveVars, assetVars, dialogVars>>
NotAdvisory == <<placeVars, arbVars, renderVars, storeVars, edVars, trayVars, exposeVars, mutexVars, writeVars, inlineVars, serveVars, assetVars, dialogVars>>
NotExpose == <<placeVars, lockVars, arbVars, renderVars, edVars, trayVars, reqVars, mutexVars, writeVars, inlineVars, serveVars, assetVars, dialogVars>>
NotMutex == <<placeVars, lockVars, arbVars, renderVars, storeVars, edVars, trayVars, reqVars, exposeVars, writeVars, inlineVars, serveVars, assetVars, dialogVars>>
NotWrite == <<placeVars, lockVars, arbVars, renderVars, storeVars, edVars, trayVars, reqVars, exposeVars, mutexVars, inlineVars, serveVars, assetVars, dialogVars>>
NotInline == <<placeVars, lockVars, arbVars, renderVars, storeVars, edVars, trayVars, reqVars, exposeVars, mutexVars, writeVars, serveVars, assetVars, dialogVars>>
NotServe == <<placeVars, arbVars, renderVars, storeVars, edVars, reqVars, exposeVars, mutexVars, writeVars, inlineVars, assetVars, dialogVars>>
NotAssets == <<placeVars, lockVars, arbVars, renderVars, storeVars, edVars, trayVars, reqVars, exposeVars, mutexVars, writeVars, inlineVars, serveVars, dialogVars>>
BesidesStore == <<placeVars, arbVars, renderVars, edVars, trayVars, reqVars, exposeVars, mutexVars, writeVars, inlineVars, serveVars, assetVars, dialogVars>>
BesidesRender == <<placeVars, arbVars, storeVars, edVars, trayVars, reqVars, exposeVars, mutexVars, writeVars, inlineVars, serveVars, assetVars, dialogVars>>
BesidesDialog == <<placeVars, arbVars, storeVars, renderVars, edVars, trayVars, reqVars, exposeVars, mutexVars, writeVars, inlineVars, serveVars, assetVars>>

\* The state of each component after construction.
PlaceIdle ==
    /\ plReq = [filePath |-> NoPath, htmlPart |-> FALSE, assets |-> {}]
    /\ plEnv = [mkdirOk |-> TRUE, write |-> "ok", assetFail |-> {}]
    /\ plRes = NoResult
    /\ plOriginalPath = NoPath
    /\ plAdopted = FALSE
    /\ plRound = 1
LockIdle ==
    /\ activeFileHandles = {}
    /\ openHandles = [k \in FileKeys |-> 0]
    /\ saveReq = [s \in SaveSlots |-> IdleSave]
    /\ lastOp = NoOp
    /\ phase = "serving"
    /\ lockReq = NoLockRequest
    /\ handler = [t \in Threads |-> IdleHandler]
    /\ waiters = <<>>
    /\ docFile = <<>>
    /\ writer = [w \in Writers |-> IdleWriter]
    /\ serveErr = FALSE
ArbIdle ==
    /\ portOwner = NoProc
    /\ proc = [p \in Procs |-> NotLaunched]
    /\ received = 0
RenderIdle ==
    /\ renderStore = <<>>
    /\ export = [s \in ExportSlots |-> IdleExport]
    /\ tokensDrawn = 0
    /\ lastView = NoView
AssetsIdle ==
    /\ lastDialog = NoDialog
    /\ asDoc = <<>>
    /\ asSaves = <<>>
    /\ asPc = "idle"
StoreIdle ==
    /\ AssetsIdle
    /\ fileStore = <<>>
    /\ idsDrawn = 0
    /\ sent = <<>>
    /\ lastPost = NoPost
    /\ lastGet = NoGet
    /\ lastOpen = NoOpen
    /\ startup = NotStarted
    /\ exposed = {}
    /\ hoPending = NoID
    /\ inlDoc = <<>>
    /\ inlFiles = [f \in ImageFiles |-> "unreadable"]
    /\ inlRes = NoInline
    /\ inlBody = NoBody
EditorIdle ==
    /\ isDirty = FALSE
    /\ fileSource = "NEW"
    /\ originalPath = NoPath
    /\ edPc = "idle"
    /\ edPath = NoPath
    /\ pending = [r \in EdRequests |-> 0]
    /\ fileName = Untitled
    /\ lastSave = NoSave
TrayIdle ==
    /\ trayPc = "loop"
    /\ quitPosted = FALSE
    /\ trayLog = <<>>
    /\ shellUp = TRUE
    /\ icon = nid
    /\ taskbarMsgs = 0
    /\ hMenus = 0
    /\ trayEvent = NoTrayEvent

\* The save-file placement policy applied to every request of SaveRequests.
InitPlace ==
    /\ plReq \in SaveRequests
    /\ plEnv \in SaveEnvs(plReq)
    /\ plRes = NoResult
    /\ plOriginalPath = plReq.filePath
    /\ plAdopted = FALSE
    /\ plRound = 1
    /\ LockIdle
    /\ fsState = [k \in FileKeys |-> "ok"]
    /\ ArbIdle
    /\ RenderIdle
    /\ StoreIdle
    /\ EditorIdle
    /\ TrayIdle
NextPlace ==
    \/ PlaceSave /\ UNCHANGED NotPlace
    \/ PlaceAdopt /\ UNCHANGED NotPlace
    \/ \E assets \in SUBSET AssetNames : PlaceNextSave(assets) /\ UNCHANGED NotPlace
SpecPlace == InitPlace /\ [][NextPlace]_vars

\* The registry under concurrent lock, unlock, kill and save-file requests.
InitLock ==
    /\ LockIdle
    /\ fsState \in [FileKeys -> FsStates]
    /\ PlaceIdle
    /\ ArbIdle
    /\ RenderIdle
    /\ StoreIdle
    /\ EditorIdle
    /\ TrayIdle
NextLock ==
    \/ \E path \in LockPaths \cup {NoPath} :
            LockRequest(path) /\ UNCHANGED NotLock
    \/ \E path \in LockPaths \cup {NoPath} :
            UnlockRequest(path) /\ UNCHANGED NotLock
    \/ KillRequest /\ UNCHANGED NotLock
    \/ ProcessExit /\ UNCHANGED NotLock
    \/ \E s \in SaveSlots, path \in LockPaths, has \in BOOLEAN, acc \in BOOLEAN :
            SaveStart(s, path, has, acc) /\ UNCHANGED NotLock
    \/ \E s \in SaveSlots, outcome \in {"ok", "create", "copy"} :
            SaveWrite(s, outcome) /\ UNCHANGED NotLock
    \/ \E s \in SaveSlots : SaveRelock(s) /\ UNCHANGED NotLock
    \/ \E s \in SaveSlots : SaveDone(s) /\ UNCHANGED NotLock
    \/ \E k \in FileKeys, st \in FsStates : EnvChange(k, st) /\ UNCHANGED NotLock
SpecLock == InitLock /\ [][NextLock]_vars

\* Clients of the lock API while files come and go.
InitAdvisory == InitLock
NextAdvisory ==
    \/ \E path \in LockPaths \cup {NoPath} :
            ClientLock(path) /\ UNCHANGED NotAdvisory
    \/ \E path \in LockPaths \cup {NoPath} :
            ClientUnlock(path) /\ UNCHANGED NotAdvisory
    \/ \E k \in FileKeys, st \in FsStates :
            EnvChange(k, st) /\ UNCHANGED lockReq /\ UNCHANGED NotAdvisory
SpecAdvisory == InitAdvisory /\ [][NextAdvisory]_vars

\* Launches racing for the port, which is free or held by another program.
InitArb ==
    /\ portOwner \in {NoProc, Foreign}
    /\ proc = [p \in Procs |-> NotLaunched]
    /\ received = 0
    /\ PlaceIdle
    /\ LockIdle
    /\ fsState = [k \in FileKeys |-> "ok"]
    /\ RenderIdle
    /\ StoreIdle
    /\ EditorIdle
    /\ TrayIdle
NextArb ==
    \/ \E p \in Procs, arg \in BOOLEAN : Launch(p, arg) /\ UNCHANGED NotArb
    \/ \E p \in Procs : Bind(p) /\ UNCHANGED NotArb
    \/ \E p \in Procs, outcome \in HandoverOutcomes :
            SecondaryHandover(p, outcome) /\ UNCHANGED NotArb
    \/ \E p \in Procs : SecondaryBrowser(p) /\ UNCHANGED NotArb
    \/ \E p \in Procs : PrimaryExit(p) /\ UNCHANGED NotArb
SpecArb == InitArb /\ [][NextArb]_vars

\* A Secondary runs to the end of main: nothing in it waits for longer than
\* the 2 s timeout of its POST.
FairArb ==
    \A p \in Procs :
        /\ WF_vars((\E outcome \in HandoverOutcomes : SecondaryHandover(p, outcome))
                     /\ UNCHANGED NotArb)
        /\ WF_vars(SecondaryBrowser(p) /\ UNCHANGED NotArb)
SpecArbLive == SpecArb /\ FairArb

\* Export requests served concurrently, and render-view fetches.
InitRender ==
    /\ RenderIdle
    /\ PlaceIdle
    /\ LockIdle
    /\ fsState = [k \in FileKeys |-> "ok"]
    /\ ArbIdle
    /\ StoreIdle
    /\ EditorIdle
    /\ TrayIdle
NextRender ==
    \/ \E s \in ExportSlots, kind \in {"screenshot", "pdf"},
          html \in HtmlDocs \cup {EmptyHtml}, valid \in BOOLEAN :
            ExportStart(s, kind, html, valid) /\ UNCHANGED NotRender
    \/ \E s \in ExportSlots : ExportTick(s) /\ UNCHANGED NotRender
    \/ \E s \in ExportSlots, outcome \in {"ok", "error", "deadline"} :
            ExportRender(s, outcome) /\ UNCHANGED NotRender
    \/ \E s \in ExportSlots, outcome \in WriteOutcomes :
            ExportWritePdf(s, outcome) /\ UNCHANGED NotRender
    \/ \E s \in ExportSlots : ExportDone(s) /\ UNCHANGED NotRender
    \/ \E n \in 0..MaxIDs :
            RenderView(IF n = 0 THEN NoID ELSE generateID(n)) /\ UNCHANGED NotRender
SpecRender == InitRender /\ [][NextRender]_vars

\* Time passes; a render whose context is done ends (chromedp.Run returns
\* the context's error); os.WriteFile returns.
FairRender ==
    \A s \in ExportSlots :
        /\ WF_vars(ExportTick(s) /\ UNCHANGED NotRender)
        /\ WF_vars(ExportRender(s, "deadline") /\ UNCHANGED NotRender)
        /\ WF_vars((\E outcome \in WriteOutcomes : ExportWritePdf(s, outcome))
                     /\ UNCHANGED NotRender)
SpecRenderLive == SpecRender /\ FairRender

\* Handovers posted to the Primary and fetched by the editor.
InitStore ==
    /\ StoreIdle
    /\ PlaceIdle
    /\ LockIdle
    /\ fsState = [k \in FileKeys |-> "ok"]
    /\ ArbIdle
    /\ RenderIdle
    /\ EditorIdle
    /\ TrayIdle
NextStore ==
    \/ \E payload \in HandoverPayloads, readable \in BOOLEAN :
            CliHandover(payload, readable) /\ UNCHANGED NotStore
    \/ CliHandoverBadBody /\ UNCHANGED NotStore
    \/ \E absPath \in OpenPaths, disk \in DiskFiles :
            PrimaryIngest(absPath, disk) /\ UNCHANGED NotStore
    \/ \E paths \in OpenPathParams, ids \in OpenIDParams :
            \E disk \in IF Len(paths) > 0 /\ paths[1] # NoPath
                         THEN DiskFiles ELSE {Unreadable} :
                OpenFile(paths, ids, disk) /\ UNCHANGED NotStore
SpecStore == InitStore /\ [][NextStore]_vars

\* The Primary from the start of main: ingestion, server, browser launch,
\* handovers, and the fetches of the browsers that were given an ID.
InitExpose == InitStore
NextExpose ==
    \/ \E hasArg \in BOOLEAN, absPath \in OpenPaths, disk \in DiskFiles :
            StartIngest(hasArg, absPath, disk) /\ UNCHANGED NotExpose
    \/ StartServe /\ UNCHANGED NotExpose
    \/ StartBrowser /\ UNCHANGED NotExpose
    \/ \E payload \in HandoverPayloads, readable \in BOOLEAN :
            CliHandoverStore(payload, readable) /\ UNCHANGED NotExpose
    \/ CliHandoverAnswer /\ UNCHANGED NotExpose
    \/ \E id \in exposed : FetchExposed(id) /\ UNCHANGED NotExpose
SpecExpose == InitExpose /\ [][NextExpose]_vars

\* HTML documents opened by path, with the image files beside them.
InitInline ==
    /\ inlDoc \in Docs
    /\ inlFiles \in [ImageFiles -> FileStates]
    /\ inlRes = NoInline
    /\ inlBody = NoBody
    /\ AssetsIdle
    /\ PlaceIdle
    /\ LockIdle
    /\ fsState = [k \in FileKeys |-> "ok"]
    /\ ArbIdle
    /\ RenderIdle
    /\ fileStore = <<>>
    /\ idsDrawn = 0
    /\ sent = <<>>
    /\ lastPost = NoPost
    /\ lastGet = NoGet
    /\ lastOpen = NoOpen
    /\ startup = NotStarted
    /\ exposed = {}
    /\ hoPending = NoID
    /\ EditorIdle
    /\ TrayIdle
NextInline ==
    \/ InlineRun /\ UNCHANGED NotInline
    \/ InlineDeliver /\ UNCHANGED NotInline
SpecInline == InitInline /\ [][NextInline]_vars

\* Saves of one document, one after the other, with no edit in between.
InitAssets ==
    /\ asDoc \in ImageDocs
    /\ asSaves = <<>>
    /\ asPc = "idle"
    /\ lastDialog = NoDialog
    /\ inlDoc = <<>>
    /\ inlFiles = [f \in ImageFiles |-> "unreadable"]
    /\ inlRes = NoInline
    /\ inlBody = NoBody
    /\ PlaceIdle
    /\ LockIdle
    /\ fsState = [k \in FileKeys |-> "ok"]
    /\ ArbIdle
    /\ RenderIdle
    /\ fileStore = <<>>
    /\ idsDrawn = 0
    /\ sent = <<>>
    /\ lastPost = NoPost
    /\ lastGet = NoGet
    /\ lastOpen = NoOpen
    /\ startup = NotStarted
    /\ exposed = {}
    /\ hoPending = NoID
    /\ EditorIdle
    /\ TrayIdle
NextAssets ==
    \/ AssetsPrepare /\ UNCHANGED NotAssets
    \/ \E ok \in BOOLEAN : AssetsResponse(ok) /\ UNCHANGED NotAssets
SpecAssets == InitAssets /\ [][NextAssets]_vars

\* Save-file requests for one path whose writes overlap in time; the file
\* holds an earlier document at the start.
InitWrite ==
    /\ docFile \in Bodies
    /\ writer = [w \in Writers |-> IdleWriter]
    /\ PlaceIdle
    /\ activeFileHandles = {}
    /\ openHandles = [k \in FileKeys |-> 0]
    /\ saveReq = [s \in SaveSlots |-> IdleSave]
    /\ lastOp = NoOp
    /\ phase = "serving"
    /\ lockReq = NoLockRequest
    /\ handler = [t \in Threads |-> IdleHandler]
    /\ waiters = <<>>
    /\ serveErr = FALSE
    /\ fsState = [k \in FileKeys |-> "ok"]
    /\ ArbIdle
    /\ RenderIdle
    /\ StoreIdle
    /\ EditorIdle
    /\ TrayIdle
NextWrite ==
    \/ \E w \in Writers, body \in Bodies, created \in BOOLEAN :
            WriteCreate(w, body, created) /\ UNCHANGED NotWrite
    \/ \E w \in Writers : WriteCopy(w) /\ UNCHANGED NotWrite
    \/ \E w \in Writers, copied \in BOOLEAN :
            WriteReturn(w, copied) /\ UNCHANGED NotWrite
SpecWrite == InitWrite /\ [][NextWrite]_vars

\* Requests served concurrently, seen as users of the three mutexes.
InitMutex == InitStore
NextMutex ==
    \/ \E t \in Threads, kind \in HandlerKinds :
            HandlerBegin(t, kind) /\ UNCHANGED NotMutex
    \/ \E t \in Threads : HandlerCall(t) /\ UNCHANGED NotMutex
    \/ \E t \in Threads : HandlerStep(t) /\ UNCHANGED NotMutex
    \/ \E t \in Threads : RenderEnd(t) /\ UNCHANGED NotMutex
SpecMutex == InitMutex /\ [][NextMutex]_vars

\* Every goroutine that can run does run.  Nothing is assumed about when a
\* render ends.
FairMutex ==
    \A t \in Threads :
        /\ WF_vars(HandlerCall(t) /\ UNCHANGED NotMutex)
        /\ WF_vars(HandlerStep(t) /\ UNCHANGED NotMutex)
SpecMutexLive == SpecMutex /\ FairMutex

\* One editor session and the process that serves it; the files stay in
\* place.
InitEditor ==
    /\ EditorIdle
    /\ LockIdle
    /\ fsState = [k \in FileKeys |-> "ok"]
    /\ PlaceIdle
    /\ ArbIdle
    /\ RenderIdle
    /\ StoreIdle
    /\ TrayIdle
NextEditor ==
    \/ EdUpdate /\ UNCHANGED NotEditor
    \/ \E confirm \in BOOLEAN : EdNewFile(confirm) /\ UNCHANGED NotEditor
    \/ \E confirm \in BOOLEAN : EdOpenFile(confirm) /\ UNCHANGED NotEditor
    \/ \E path \in EdOpenPaths \cup {NoPath} :
            EdDialogAnswer(path) /\ UNCHANGED NotEditor
    \/ \E ok \in BOOLEAN : EdLoaded(ok) /\ UNCHANGED NotEditor
    \/ \E has \in BOOLEAN, acc \in BOOLEAN : EdSave(has, acc) /\ UNCHANGED NotEditor
    \/ \E has \in BOOLEAN, acc \in BOOLEAN :
            EdAutoSave(has, acc) /\ UNCHANGED NotEditor
    \/ \E path \in EdSaveAsPaths \cup {NoPath}, has \in BOOLEAN, acc \in BOOLEAN :
            EdSaveAs(path, has, acc) /\ UNCHANGED NotEditor
    \/ \E outcome \in {"ok", "create", "copy"} :
            SaveWrite(1, outcome) /\ UNCHANGED edVars /\ UNCHANGED NotEditor
    \/ SaveRelock(1) /\ UNCHANGED edVars /\ UNCHANGED NotEditor
    \/ EdSaveResponse /\ UNCHANGED NotEditor
    \/ \E r \in EdRequests : EdServe(r) /\ UNCHANGED NotEditor
SpecEditor == InitEditor /\ [][NextEditor]_vars

\* The Primary from the start of the tray loop to its exit: lock and unlock
\* requests, /api/kill and the tray events.
InitTray ==
    /\ trayPc = "loop"
    /\ quitPosted = FALSE
    /\ trayLog = <<>>
    /\ shellUp \in BOOLEAN
    /\ icon = addTrayIcon(NoIcon, shellUp)
    /\ taskbarMsgs = 0
    /\ hMenus = 0
    /\ trayEvent = NoTrayEvent
    /\ LockIdle
    /\ fsState = [k \in FileKeys |-> "ok"]
    /\ PlaceIdle
    /\ ArbIdle
    /\ RenderIdle
    /\ StoreIdle
    /\ EditorIdle
NextTray ==
    \/ \E path \in LockPaths :
            LockRequest(path) /\ UNCHANGED trayVars /\ UNCHANGED NotTray
    \/ \E path \in LockPaths :
            UnlockRequest(path) /\ UNCHANGED trayVars /\ UNCHANGED NotTray
    \/ KillRequest /\ UNCHANGED trayVars /\ UNCHANGED NotTray
    \/ ProcessExit /\ UNCHANGED trayVars /\ UNCHANGED NotTray
    \/ TrayLeftClick /\ UNCHANGED NotTray
    \/ \E created \in BOOLEAN : TrayRightClick(created) /\ UNCHANGED NotTray
    \/ \E res \in 0..2 : TrayMenuReturn(res) /\ UNCHANGED NotTray
    \/ TrayDestroy /\ UNCHANGED NotTray
    \/ TrayLoopEnd /\ UNCHANGED NotTray
    \/ TrayIconDelete /\ UNCHANGED NotTray
    \/ TraySweep /\ UNCHANGED NotTray
    \/ TrayReturn /\ UNCHANGED NotTray
    \/ ShellCrash /\ UNCHANGED NotTray
    \/ ShellStart /\ UNCHANGED NotTray
    \/ TrayTaskbarCreated /\ UNCHANGED NotTray
SpecTray == InitTray /\ [][NextTray]_vars

\* The user dismisses an open menu; the message loop reads WM_QUIT once it
\* is posted; the steps after the loop and the exit timer of /api/kill run.
FairTray ==
    /\ WF_vars(\E res \in 0..2 : TrayMenuReturn(res) /\ UNCHANGED NotTray)
    /\ SF_vars(TrayLoopEnd /\ UNCHANGED NotTray)
    /\ WF_vars(TrayIconDelete /\ UNCHANGED NotTray)
    /\ WF_vars(TraySweep /\ UNCHANGED NotTray)
    /\ WF_vars(TrayReturn /\ UNCHANGED NotTray)
    /\ WF_vars(ProcessExit /\ UNCHANGED trayVars /\ UNCHANGED NotTray)
    /\ WF_vars(TrayTaskbarCreated /\ UNCHANGED NotTray)
SpecTrayLive == SpecTray /\ FairTray

\* The life of the Primary: the tray, /api/kill, the server goroutine, and
\* requests whose handlers fail (unreadable body, unreadable file, failed
\* render, failed write).
InitServe == InitTray /\ shellUp
NextServe ==
    \/ KillRequest /\ UNCHANGED trayVars /\ UNCHANGED NotTray
    \/ ProcessExit /\ UNCHANGED trayVars /\ UNCHANGED NotTray
    \/ ServeFatal /\ UNCHANGED trayVars /\ UNCHANGED NotServe
    \/ TrayLeftClick /\ UNCHANGED NotTray
    \/ \E created \in BOOLEAN : TrayRightClick(created) /\ UNCHANGED NotTray
    \/ \E res \in 0..2 : TrayMenuReturn(res) /\ UNCHANGED NotTray
    \/ TrayDestroy /\ UNCHANGED NotTray
    \/ TrayLoopEnd /\ UNCHANGED NotTray
    \/ TrayIconDelete /\ UNCHANGED NotTray
    \/ TraySweep /\ UNCHANGED NotTray
    \/ TrayReturn /\ UNCHANGED NotTray
    \/ phase # "exited" /\ CliHandoverBadBody /\ UNCHANGED NotStore
    \/ phase # "exited" /\ OpenFile(<<PathA>>, <<>>, Unreadable)
           /\ UNCHANGED NotStore
    \/ phase # "exited" /\ ExportStart(1, "pdf", <<"h", "1">>, TRUE)
           /\ UNCHANGED NotRender
    \/ phase # "exited" /\ ExportRender(1, "error") /\ UNCHANGED NotRender
    \/ phase # "exited" /\ ExportDone(1) /\ UNCHANGED NotRender
    \/ \E body \in Bodies :
           phase # "exited" /\ WriteCreate(1, body, FALSE) /\ UNCHANGED NotWrite
SpecServe == InitServe /\ [][NextServe]_vars

\* The Primary serving every endpoint: the registry handlers (lock, unlock,
\* save-file, kill, the tray exit) and the handlers that hold no registry
\* call.  One file is handed over or ingested and one export is served.
InitFrame == InitTray /\ shellUp
NextFrame ==
    \/ LockRequest(PathB) /\ UNCHANGED trayVars /\ UNCHANGED NotTray
    \/ UnlockRequest(PathB) /\ UNCHANGED trayVars /\ UNCHANGED NotTray
    \/ SaveStart(1, PathB, FALSE, TRUE) /\ UNCHANGED NotLock
    \/ SaveWrite(1, "create") /\ UNCHANGED NotLock
    \/ SaveRelock(1) /\ UNCHANGED NotLock
    \/ SaveDone(1) /\ UNCHANGED NotLock
    \/ KillRequest /\ UNCHANGED trayVars /\ UNCHANGED NotTray
    \/ ProcessExit /\ UNCHANGED trayVars /\ UNCHANGED NotTray
    \/ TrayDestroy /\ UNCHANGED NotTray
    \/ TrayLoopEnd /\ UNCHANGED NotTray
    \/ TrayIconDelete /\ UNCHANGED NotTray
    \/ TraySweep /\ UNCHANGED NotTray
    \/ TrayReturn /\ UNCHANGED NotTray
    \/ /\ phase # "exited"
       /\ DialogOpen(PathA) /\ RegistryUntouched /\ UNCHANGED BesidesDialog
    \/ /\ phase # "exited"
       /\ DialogSave(NoPath) /\ RegistryUntouched /\ UNCHANGED BesidesDialog
    \/ /\ phase # "exited"
       /\ PrimaryIngest(PathA, [ok |-> TRUE, content |-> ImgTag, img |-> TRUE])
       /\ RegistryUntouched /\ UNCHANGED BesidesStore
    \/ /\ phase # "exited"
       /\ idsDrawn = 0
       /\ CliHandover([fileName |-> <<Root, NameA, FileA>>,
                       data |-> base64EncodeToString(<<104>> \o ImgTag)], TRUE)
       /\ RegistryUntouched /\ UNCHANGED BesidesStore
    \/ \E ids \in {<<>>, <<generateID(1)>>} :
            /\ phase # "exited"
            /\ OpenFile(IF ids = <<>> THEN <<PathA>> ELSE <<>>, ids,
                        [ok |-> TRUE, content |-> ImgTag, img |-> TRUE])
            /\ RegistryUntouched /\ UNCHANGED BesidesStore
    \/ /\ phase # "exited"
       /\ tokensDrawn = 0
       /\ ExportStart(1, "pdf", <<"h", "1">>, TRUE)
       /\ RegistryUntouched /\ UNCHANGED BesidesRender
    \/ /\ phase # "exited"
       /\ RenderView(generateID(1)) /\ RegistryUntouched /\ UNCHANGED BesidesRender
    \/ /\ phase # "exited"
       /\ ExportRender(1, "ok") /\ RegistryUntouched /\ UNCHANGED BesidesRender
    \/ /\ phase # "exited"
       /\ ExportWritePdf(1, "written") /\ RegistryUntouched /\ UNCHANGED BesidesRender
    \/ /\ phase # "exited"
       /\ ExportDone(1) /\ RegistryUntouched /\ UNCHANGED BesidesRender
SpecFrame == InitFrame /\ [][NextFrame]_vars

(***************************************************************************)
(* Claims                                                                  *)
(***************************************************************************)

Primaries == {p \in Procs : proc[p].role = "primary"}
LivePrimaries == {p \in Primaries : proc[p].pc = "serving"}
Decided == {p \in Procs : proc[p].role # "none"}

\* C1: at most one live process is Primary, and it is the one bound to the
\* port; only a Primary serves; of the processes that made their bind
\* attempt on a port that was free, before any Primary exited, exactly one
\* is Primary and the others are Secondary; a role, once decided, stays.
C1_OnePrimary ==
    [][ /\ Cardinality(LivePrimaries') <= 1
        /\ \A p \in Procs :
              /\ proc'[p].pc = "serving" =>
                    proc'[p].role = "primary" /\ portOwner' = p
              /\ proc'[p].role = "secondary" => proc'[p].pc # "serving"
              /\ proc[p].role # "none" => proc'[p].role = proc[p].role
        /\ (/\ portOwner' # Foreign
            /\ Decided' # {}
            /\ \A p \in Primaries' : proc'[p].pc = "serving") =>
              /\ Cardinality(Primaries') = 1
              /\ \A p \in Decided' \ Primaries' : proc'[p].role = "secondary"
      ]_vars

\* The Primary has exited and freed the port while a Secondary that lost the
\* race to it is still running.
C1_Witness ==
    /\ portOwner = NoProc
    /\ \E p \in Procs : proc[p].role = "primary" /\ proc[p].pc = "exited"
    /\ \E p \in Procs :
          proc[p].role = "secondary" /\ proc[p].pc \in {"handover", "browser"}
\* Every handle lockFile opened is the one handle of a registered key, or
\* has been closed.
NoLeakedHandle ==
    \A k \in FileKeys :
        openHandles[k] = IF k \in activeFileHandles THEN 1 ELSE 0

\* C2: under every interleaving of lock, unlock, kill (unlockAll) and
\* save-file handlers the registry holds at most one open handle per
\* canonical path and no opened handle is leaked; a lock request for a path
\* that is already locked opens nothing and changes nothing.
C2_OneHandlePerPath ==
    [][ /\ NoLeakedHandle'
        /\ \A path \in LockPaths :
              (LockRequest(path) /\ Locked(activeFileHandles, getLockKey(path)))
                 => UNCHANGED <<activeFileHandles, openHandles>> ]_vars

\* A second lock request has been served for a locked path while a
\* save-file request is in flight.
C2_Witness ==
    /\ lastOp.op = "lock" /\ lastOp.exists
    /\ \E s \in SaveSlots : saveReq[s].pc # "idle"
    /\ \E k \in FileKeys : openHandles[k] = 1

\* C3: after an unlock request for p no handle is open on p and p has no
\* entry, however many lock requests preceded it; an unlock request for a
\* path that has no entry changes nothing; the answer is 200 either way.
C3_UnlockLeavesNone ==
    [][ \A path \in LockPaths :
          UnlockRequest(path) =>
            /\ ~Locked(activeFileHandles', getLockKey(path))
            /\ openHandles'[getLockKey(path)] = 0
            /\ lastOp'.status = 200
            /\ ~Locked(activeFileHandles, getLockKey(path))
                  => UNCHANGED <<activeFileHandles, openHandles>> ]_vars

\* An unlock request has released a locked path.
C3_Witness ==
    /\ lastOp.op = "unlock" /\ lastOp.exists
    /\ activeFileHandles = {}
    /\ \A k \in FileKeys : openHandles[k] = 0

\* C6 as stated: in an undisturbed save-file request no handle is held for the
\* final path when the file is written; after a failed write a path that was
\* locked before the request is locked; after a successful write no handle
\* is held for the final path.
C6_Original ==
    \A s \in SaveSlots :
        LET r == saveReq[s]
            held == Locked(activeFileHandles, getLockKey(r.final))
        IN  r.pc # "idle" /\ r.clean =>
              /\ r.pc = "write" => ~held
              /\ r.pc = "failed" /\ r.heldBefore => held
              /\ r.pc = "saved" => ~held

\* C6 amended: after a failed write the final path is locked whenever the
\* file could be opened when lockFile was called for it.
C6_RelockOnFailure ==
    \A s \in SaveSlots :
        LET r == saveReq[s]
            held == Locked(activeFileHandles, getLockKey(r.final))
        IN  r.pc # "idle" /\ r.clean =>
              /\ r.pc = "write" => ~held
              /\ r.pc = "failed" /\ r.reopen => held
              /\ r.pc = "saved" => ~held

\* A save-file request for a locked path failed to write and holds the lock
\* again.
C6_Witness ==
    \E s \in SaveSlots :
        /\ saveReq[s].pc = "failed" /\ saveReq[s].clean /\ saveReq[s].heldBefore
        /\ Locked(activeFileHandles, getLockKey(saveReq[s].final))

\* C4: the render store holds exactly the tokens of the export requests
\* between token creation and handler return, each with the HTML of its
\* request and no two requests with the same token; a render-view fetch of
\* the token of a handler that has returned (after success, render failure,
\* deadline or PDF write failure) is answered 404.
C4_StoreIsInFlight ==
    [][ /\ DOMAIN renderStore' = InFlightTokens'
        /\ \A s \in InFlight' :
              /\ renderStore'[export'[s].token] = export'[s].html
              /\ \A t \in InFlight' : export'[t].token = export'[s].token => t = s
        /\ \A token \in DrawnTokens \ InFlightTokens :
              RenderView(token) => lastView'.status = 404
      ]_vars

\* A PDF export failed and returned while another export is in flight, and
\* the token of the failed one has just been fetched.
C4_Witness ==
    /\ \E s \in ExportSlots :
          /\ export[s].pc = "returned" /\ export[s].status = 500
          /\ export[s].kind = "pdf"
          /\ lastView.token = export[s].token /\ lastView.status = 404
    /\ InFlight # {}
    /\ DOMAIN renderStore # {}

IsHexID(id) == Len(id) = 16 /\ \A i \in 1..Len(id) : id[i] \in {HexDigits[k] : k \in 1..16}
ValidBase64(data) == base64DecodeString(data).ok
EndsInHtml(name) ==
    \/ HasSuffix(PathString(name), DotHtml)
    \/ HasSuffix(PathString(name), DotHtm)
\* What C5 promises for the handover `payload` that was answered with `id`
\* when id is fetched.
HandoverServed(id, payload) ==
    /\ lastGet'.status = 200
    /\ lastGet'.body = base64DecodeString(payload.data).bytes
    /\ \A c \in Contents :
          payload.data = base64EncodeToString(c) => lastGet'.body = c
    /\ decodeURIComponent(lastGet'.xFileName) = Base(payload.fileName)

\* C5 as stated: the round trip for every file name that does not end in
\* ".html" or ".htm".
C5_Original ==
    [][ \A id \in DOMAIN sent :
          (/\ OpenFileByID(id)
           /\ ValidBase64(sent[id].data)
           /\ ~EndsInHtml(sent[id].fileName)) => HandoverServed(id, sent[id])
      ]_vars

\* C5 amended: a handover with valid base64 data is answered with a
\* 16-hex-character ID; if the extension of fileName, compared
\* case-insensitively, is not .html or .htm, every later fetch of that ID
\* returns the bytes that were encoded in the request, and X-File-Name
\* decodes to the base name of fileName.
C5_HandoverRoundTrip ==
    [][ /\ \A payload \in HandoverPayloads, readable \in BOOLEAN :
              (CliHandover(payload, readable) /\ ValidBase64(payload.data)) =>
                  /\ lastPost'.status = 200
                  /\ IsHexID(lastPost'.body)
                  /\ lastPost'.body \notin DOMAIN fileStore
                  /\ lastPost'.body \in DOMAIN fileStore'
        /\ \A id \in DOMAIN sent :
              (/\ OpenFileByID(id)
               /\ ValidBase64(sent[id].data)
               /\ ~IsHtmlName(sent[id].fileName)) => HandoverServed(id, sent[id])
      ]_vars

\* The first of several handovers, a binary file whose name has a space,
\* fetched after the later ones were stored.
C5_Witness ==
    /\ idsDrawn >= 2
    /\ lastGet.id = generateID(1) /\ lastGet.status = 200
    /\ sent[generateID(1)].fileName = <<Root, NameSpaced>>
    /\ lastGet.body = <<0, 255, 16>>
    /\ lastGet.xFileName # NameSpaced

\* No lock, unlock or save request of the session is outstanding.
Quiescent ==
    /\ edPc = "idle"
    /\ \A r \in EdRequests : pending[r] = 0
    /\ saveReq[1].pc = "idle"

\* C7: in every quiescent state in which the document is dirty, its source
\* is PATH and its path is an openable file, the registry holds a handle for
\* that path.
C7_DirtyDocumentLocked ==
    (/\ Quiescent
     /\ isDirty /\ fileSource = "PATH" /\ originalPath # NoPath
     /\ fsState[getLockKey(originalPath)] = "ok") =>
        Locked(activeFileHandles, getLockKey(originalPath))

\* The request that has been served, read as the claims read it.
PlStem == TrimSuffix(Base(plReq.filePath), Ext(Base(plReq.filePath)))
PlParent == Base(Dir(plReq.filePath))
PlIsHtml == ToLower(Ext(Base(plReq.filePath))) = DotHtml
PlIsMarkdown == ToLower(Ext(Base(plReq.filePath))) \in {DotMd, DotMarkdown}
\* <dir>/<base>/<base>.html
PlBundledPath ==
    Clean(Dir(plReq.filePath) \o <<PlStem>> \o <<Base(plReq.filePath)>>)
\* The placement was decided: the request named a path and MkdirAll, if
\* called, succeeded.
PlPlaced == plRes # NoResult /\ plRes.final # NoPath
PlAssetsIn(dir) == {Clean(Append(dir, a)) : a \in plReq.assets \ plEnv.assetFail}

\* C8 as stated: an .html target with assets is bundled if and only if the
\* parent directory's name differs from the base name.
C8_Original ==
    (PlPlaced /\ PlIsHtml /\ plReq.assets # {}) =>
        /\ plRes.final = PlBundledPath <=> PlParent # PlStem
        /\ PlParent = PlStem => plRes.final = plReq.filePath

\* C8 amended: the two names are compared case-insensitively; equal names
\* leave the document at the request path with the assets beside it; the
\* decision is a function of (Markdown extension, assets present, names
\* equal under case folding) for every request.
C8_BundleUnlessSameName ==
    PlPlaced =>
        /\ (PlIsHtml /\ plReq.assets # {}) =>
              /\ plRes.final = PlBundledPath <=> ~EqualFold(PlParent, PlStem)
              /\ EqualFold(PlParent, PlStem) =>
                    /\ plRes.final = plReq.filePath
                    /\ plRes.dirs = {}
                    /\ plRes.status = 200 =>
                          plRes.assets = PlAssetsIn(Dir(plReq.filePath))
        /\ plRes.final # plReq.filePath =>
              (~PlIsMarkdown /\ plReq.assets # {} /\ ~EqualFold(PlParent, PlStem))
        /\ (~PlIsMarkdown /\ plReq.assets # {} /\ ~EqualFold(PlParent, PlStem)) =>
              plRes.final = PlBundledPath

\* An .html document with assets saved into a directory whose name is its
\* base name in another case: it stays where it is.
C8_Witness ==
    /\ PlPlaced /\ PlIsHtml /\ plReq.assets # {}
    /\ plRes.status = 200
    /\ PlParent # PlStem /\ EqualFold(PlParent, PlStem)
    /\ plRes.final = plReq.filePath

\* C9: a request without assets is written at the request path, whatever
\* its extension and parent directory, and creates no directory.
C9_NoAssetsStays ==
    (plRes # NoResult /\ plReq.filePath # NoPath /\ plReq.assets = {}) =>
        /\ plRes.final = plReq.filePath
        /\ plRes.dirs = {}
        /\ plRes.doc \subseteq {plReq.filePath}
        /\ plRes.status = 200 =>
              plRes.path = plReq.filePath /\ plRes.doc = {plReq.filePath}

\* A document without assets saved in a directory that is not named after it.
C9_Witness ==
    /\ plRes # NoResult /\ plRes.status = 200 /\ plReq.assets = {}
    /\ ~PlIsMarkdown /\ ~EqualFold(PlParent, PlStem)
    /\ plRes.path = plReq.filePath

\* C10: a .md or .markdown target (in any case) with assets is written at
\* the request path, which is the path returned; its assets are written
\* in <dir>/<base>_assets/ and nowhere else; it is never bundled.
C10_MarkdownSidecar ==
    (PlPlaced /\ PlIsMarkdown /\ plReq.assets # {}) =>
        /\ plRes.final = plReq.filePath
        /\ plRes.doc \subseteq {plReq.filePath}
        /\ plRes.dirs = {Append(Dir(plReq.filePath), PlStem \o AssetsSuffix)}
        /\ plRes.assets \subseteq
              {Append(Append(Dir(plReq.filePath), PlStem \o AssetsSuffix), a) :
                  a \in plReq.assets}
        /\ plRes.status = 200 =>
              /\ plRes.path = plReq.filePath
              /\ plRes.doc = {plReq.filePath}
              /\ plRes.assets =
                    PlAssetsIn(Append(Dir(plReq.filePath), PlStem \o AssetsSuffix))

\* A Markdown document with assets saved in a directory that is not named
\* after it: an HTML document there would have been bundled.
C10_Witness ==
    /\ PlPlaced /\ PlIsMarkdown /\ plRes.status = 200
    /\ plRes.assets # {}
    /\ ~EqualFold(PlParent, PlStem)

C12_NoHandleAtExit ==
    phase = "exited" =>
        /\ activeFileHandles = {}
        /\ \A k \in FileKeys : openHandles[k] = 0

TrayOrder == <<"quit", "loopEnd", "iconRemoved", "sweep", "terminate">>
TrayKilled == phase = "exited" /\ trayPc # "returned"

Secondaries == {p \in Procs : proc[p].role = "secondary"}

\* C14: every Secondary terminates; with a file argument it sends at most
\* one handover POST (none when the file cannot be read) and exits after it
\* whether the POST was answered, refused or timed out; without an argument
\* it starts exactly one browser navigation and exits; it never does both,
\* and once it has exited it does nothing more.
C14_SecondaryTerminates ==
    /\ [](\A p \in Secondaries :
            /\ proc[p].posts + proc[p].navs <= 1
            /\ proc[p].arg => proc[p].navs = 0
            /\ ~proc[p].arg => proc[p].posts = 0
            /\ proc[p].pc \in {"handover", "browser"} =>
                  proc[p].posts = 0 /\ proc[p].navs = 0
            /\ (proc[p].pc = "exited" /\ ~proc[p].arg) => proc[p].navs = 1)
    /\ [][\A p \in Procs :
            (proc[p].role = "secondary" /\ proc[p].pc = "exited")
                => proc'[p] = proc[p]]_vars
    /\ \A p \in Procs :
            (proc[p].role = "secondary") ~> (proc[p].pc = "exited")

\* Two Secondaries have exited: one after a POST the Primary answered, one
\* after opening the browser.
C14_Witness ==
    /\ received = 1
    /\ \E p, r \in Secondaries :
          /\ proc[p].pc = "exited" /\ proc[p].arg /\ proc[p].posts = 1
          /\ proc[r].pc = "exited" /\ ~proc[r].arg /\ proc[r].navs = 1

\* C15: every export request in flight returns; a render that has not ended
\* when its deadline (screenshot 30 s, PDF 60 s) is reached is ended by it:
\* the request is answered 500, not before the deadline, and its render-store
\* entry is removed.
C15_ExportReturns ==
    /\ \A s \in ExportSlots :
          (export[s].pc \in {"rendering", "writing"}) ~> (export[s].pc = "returned")
    /\ [](\A s \in ExportSlots :
            /\ export[s].elapsed <= Deadline(export[s].kind)
            /\ export[s].cause = "deadline" =>
                  /\ export[s].pc = "returned"
                  /\ export[s].status = 500
                  /\ export[s].token \notin DOMAIN renderStore)
    /\ [][\A s \in ExportSlots :
            (export[s].pc = "rendering" /\ export'[s].cause = "deadline") =>
                export[s].elapsed = Deadline(export[s].kind)]_vars

\* A PDF export was ended by its 60 s deadline while a screenshot, started
\* later, is still rendering.
C15_Witness ==
    \E s, t \in ExportSlots :
        /\ export[s].kind = "pdf" /\ export[s].cause = "deadline"
        /\ export[t].pc = "rendering" /\ export[t].kind = "screenshot"
        /\ DOMAIN renderStore = {export[t].token}

\* C16: a save-file request that is answered 400 has had no effect on the
\* filesystem: no directory created, no document and no asset written.
C16_NoEffectOn400 ==
    (plRes # NoResult /\ plRes.status = 400) =>
        /\ plRes.dirs = {}
        /\ plRes.doc = {}
        /\ plRes.assets = {}

\* C17: an open-file request with a path parameter is answered from the disk
\* path alone, whatever its fileId parameter and the file store hold: 400
\* for an empty path, 404 for an unreadable one, otherwise the file's bytes
\* under the path's name.  Without a path parameter the fileId decides: an
\* absent or unknown ID is answered 404, a stored one from its entry.
C17_PathBeforeFileID ==
    [][ (lastOpen' # lastOpen \/ lastGet' # lastGet) =>
          LET paths == lastOpen'.paths
              ids == lastOpen'.ids
              disk == lastOpen'.disk
          IN  /\ (Len(paths) > 0 /\ paths[1] = NoPath) => lastGet'.status = 400
              /\ (Len(paths) > 0 /\ paths[1] # NoPath /\ ~disk.ok) =>
                      lastGet'.status = 404
              /\ (Len(paths) > 0 /\ paths[1] # NoPath /\ disk.ok) =>
                      /\ lastGet'.status = 200
                      /\ lastGet'.body = IF IsHtmlName(paths[1])
                                         THEN inlineLocalImages(disk.content, disk.img)
                                         ELSE disk.content
                      /\ decodeURIComponent(lastGet'.xFileName) = Base(paths[1])
                      /\ decodeURIComponent(lastGet'.xFilePath) = PathString(paths[1])
              /\ (Len(paths) = 0 /\ (Len(ids) = 0 \/ ids[1] \notin DOMAIN fileStore)) =>
                      lastGet'.status = 404
              /\ (Len(paths) = 0 /\ Len(ids) > 0 /\ ids[1] \in DOMAIN fileStore) =>
                      /\ lastGet'.status \in {200, 500}
                      /\ lastGet'.status = 200 =>
                             decodeURIComponent(lastGet'.xFilePath)
                                 = PathString(fileStore[ids[1]].fileName)
      ]_vars

\* A request with an empty path and the ID of a stored, decodable file was
\* answered 400.
C17_Witness ==
    /\ lastOpen.paths = <<NoPath>>
    /\ Len(lastOpen.ids) > 0
    /\ lastOpen.ids[1] \in DOMAIN fileStore
    /\ base64DecodeString(fileStore[lastOpen.ids[1]].data).ok
    /\ lastGet.status = 400

\* C18: an entry of the file store is never removed or changed, whether it
\* was written by a handover or by the Primary's own ingestion, and every
\* fetch by ID is answered from the entry as it was written: the same
\* status and the same bytes each time.
C18_FileStoreOnlyGrows ==
    [][ /\ \A id \in DOMAIN fileStore :
              id \in DOMAIN fileStore' /\ fileStore'[id] = fileStore[id]
        /\ \A id \in DOMAIN fileStore :
              (/\ lastOpen' # lastOpen \/ lastGet' # lastGet
               /\ lastOpen'.paths = <<>>
               /\ lastOpen'.ids = <<id>>) =>
                  LET dec == base64DecodeString(fileStore[id].data)
                  IN  /\ lastGet'.status = IF dec.ok THEN 200 ELSE 500
                      /\ dec.ok => lastGet'.body = dec.bytes
                      /\ (lastGet.id = id /\ lastGet.status # 404) =>
                             /\ lastGet'.status = lastGet.status
                             /\ lastGet'.body = lastGet.body
      ]_vars

\* The file the Primary ingested at start was fetched after a later
\* handover had been stored.
C18_Witness ==
    /\ idsDrawn = 2
    /\ generateID(1) \in DOMAIN fileStore \ DOMAIN sent
    /\ generateID(2) \in DOMAIN sent
    /\ lastOpen.paths = <<>> /\ lastOpen.ids = <<generateID(1)>>
    /\ lastGet.id = generateID(1) /\ lastGet.status = 200
    /\ lastGet.body = base64DecodeString(fileStore[generateID(1)].data).bytes

\* C19: the lock and unlock endpoints answer 200 for every body; a body
\* that does not decode to a non-empty path changes nothing; a lock whose
\* open fails leaves the registry and the open handles as they were; and a
\* lock of a path that can be opened registers it, also after earlier
\* failures for that path.
C19_LockIsAdvisory ==
    /\ [](lastOp.op \in {"lock", "unlock"} => lastOp.status = 200)
    /\ [][ \A path \in LockPaths \cup {NoPath} :
             /\ (ClientLock(path) \/ ClientUnlock(path)) =>
                    /\ lastOp'.status = 200
                    /\ path = NoPath =>
                           UNCHANGED <<activeFileHandles, openHandles>>
             /\ (ClientLock(path) /\ path # NoPath) =>
                    /\ OpenFails(activeFileHandles, openHandles, fsState, path) =>
                           UNCHANGED <<activeFileHandles, openHandles>>
                    /\ CanOpen(openHandles, fsState, path) =>
                           /\ Locked(activeFileHandles', getLockKey(path))
                           /\ openHandles'[getLockKey(path)] = 1
          ]_vars

\* A lock of a path whose open had failed before has registered the path.
C19_Witness ==
    /\ lockReq.op = "lock"
    /\ lockReq.path = PathB
    /\ getLockKey(PathB) \in lockReq.failed
    /\ lastOp = [op |-> "lock", status |-> 200, exists |-> FALSE]
    /\ Locked(activeFileHandles, getLockKey(PathB))
    /\ openHandles[getLockKey(PathB)] = 1

\* C20: a PDF export touches its target file only after the render has
\* succeeded.  A render that failed or ran into the deadline is answered
\* 500 with the driver's error text and the target untouched; 200 with an
\* empty body is answered only when the file holds the PDF; a failed write
\* is answered 500.
C20_PdfWrittenIffRendered ==
    \A s \in ExportSlots :
        export[s].kind = "pdf" =>
            /\ export[s].pc \in {"rendering", "writing"} =>
                   export[s].target = "untouched"
            /\ export[s].pc = "returned" =>
                   /\ export[s].cause \in {"driver", "deadline"} =>
                          /\ export[s].status = 500
                          /\ export[s].target = "untouched"
                          /\ Head(ExportBody(export[s])) = "Chromedp Error: "
                   /\ export[s].cause = "badRequest" =>
                          export[s].target = "untouched"
                   /\ export[s].status = 200 =>
                          /\ export[s].target = "written"
                          /\ ExportBody(export[s]) = <<>>
                   /\ export[s].target # "written" => export[s].status # 200
                   /\ export[s].cause = "write" =>
                          /\ export[s].status = 500
                          /\ export[s].target \in {"untouched", "partial"}

\* Two PDF exports have returned: one whose render ran into the deadline,
\* one whose write failed after the file had been truncated.
C20_Witness ==
    \E s, t \in ExportSlots :
        /\ export[s].kind = "pdf" /\ export[s].pc = "returned"
        /\ export[s].cause = "deadline" /\ export[s].status = 500
        /\ export[t].kind = "pdf" /\ export[t].pc = "returned"
        /\ export[t].cause = "write" /\ export[t].target = "partial"

\* The message loop runs: wndProc is reached by the messages of the window.
TrayLoopRuns == phase # "exited" /\ trayPc \in {"loop", "menu"}

\* C21: a TaskbarCreated message handled while the loop runs registers the
\* icon nid (same window, id and callback message) with a running shell and
\* leaves the loop where it was; so while the loop runs, the shell runs and
\* no TaskbarCreated is pending the icon is shown, and a pending
\* TaskbarCreated leads to the icon being shown, however often the shell
\* has been restarted.
C21_IconRestored ==
    /\ [][ (TrayLoopRuns /\ taskbarMsgs' < taskbarMsgs) =>
             /\ shellUp => icon' = nid
             /\ UNCHANGED <<trayPc, quitPosted, trayLog>> ]_vars
    /\ []((TrayLoopRuns /\ shellUp /\ taskbarMsgs = 0) => icon = nid)
    /\ ((TrayLoopRuns /\ shellUp /\ taskbarMsgs > 0)
           ~> (icon = nid \/ ~shellUp \/ ~TrayLoopRuns))

\* The shell was restarted twice while a menu was open: the icon shown was
\* registered by the handler of the first TaskbarCreated, the second one is
\* still in the queue.
C21_Witness ==
    /\ trayPc = "menu" /\ phase = "serving"
    /\ shellUp /\ icon = nid /\ taskbarMsgs = 1

\* C22: every ID that has been given out, in a handover response, in the
\* browser launch of a handover or in the Primary's first browser launch,
\* is in the file store from that moment on, and a fetch by such an ID is
\* never answered 404.
C22_ExposedIDStored ==
    /\ exposed \subseteq DOMAIN fileStore
    /\ (startup.initialID # NoID) => startup.initialID \in DOMAIN fileStore
    /\ (lastPost.status = 200) => lastPost.body \in DOMAIN fileStore
    /\ (lastOpen # NoOpen) =>
           /\ lastOpen.ids[1] \in exposed
           /\ lastGet.status \in {200, 500}

\* The browser launched at the start has fetched the Primary's own file by
\* its ID while a handover was between its store write and its answer.
C22_Witness ==
    /\ startup.initialID # NoID /\ startup.launched
    /\ hoPending # NoID /\ hoPending \notin exposed
    /\ lastOpen # NoOpen
    /\ lastOpen.ids = <<startup.initialID>>
    /\ lastGet.status = 200

Rendering == {s \in ExportSlots : export[s].pc = "rendering"}

AtRender(t) == handler[t].kind # "idle" /\ NextStep(t).op = "render"

\* C24: a handler holds at most one of the three mutexes at any time, none
\* while its render runs and none when it returns; a mutex that is held is
\* held by a handler whose next step does not wait for a mutex or a render;
\* and every handler that is not waiting for its own render goes on to its
\* return or to its render, whatever renders of other requests are blocked.
C24_MutexesIndependent ==
    /\ [](\A t \in Threads :
             /\ Cardinality(Held(t)) <= 1
             /\ AtRender(t) => Held(t) = {}
             /\ (handler[t].kind # "idle" /\ Held(t) # {}) =>
                    NextStep(t).op \in {"release", "io"})
    /\ [](\A kind \in HandlerKinds :
             HeldAfter(Program(kind), Len(Program(kind))) = {})
    /\ \A t \in Threads :
           (handler[t].kind # "idle" /\ ~AtRender(t))
               ~> (handler[t].kind = "idle" \/ AtRender(t))

\* Two exports wait in their renders while a third request holds the
\* render store's mutex.
C24_Witness ==
    /\ AtRender(1) /\ AtRender(2)
    /\ handler[1].kind = "screenshot" /\ handler[2].kind = "pdf"
    /\ Held(3) = {<<"renderStoreMu", "R">>}

\* C25: when the save-file requests for one path have all reported success,
\* the file holds the complete document of one of them.
C25_LastWriteWins ==
    (\A w \in Writers : writer[w].pc = "returned" /\ writer[w].status = 200)
        => \E w \in Writers : docFile = writer[w].body

\* The canonical form of a path: cleaned, and lower-cased on Windows.
Canonical(p) == PathToLower(Clean(p))
HandlesOn(c) ==
    SumOver([k \in FileKeys |-> IF PathToLower(k) = c THEN openHandles[k] ELSE 0],
            FileKeys)

\* C26: spellings with the same canonical form share one registry entry:
\* however they are locked, at most one handle is held for the canonical
\* form; an unlock by any of them leaves no entry and no handle for it; and
\* a lock or unlock leaves the entries and handles of every other canonical
\* form alone.
C26_KeyedByCanonicalPath ==
    /\ [](\A p \in LockPaths : HandlesOn(Canonical(p)) <= 1)
    /\ [][ \A q \in LockPaths :
             /\ ClientUnlock(q) =>
                    /\ HandlesOn(Canonical(q))' = 0
                    /\ \A k \in activeFileHandles' : PathToLower(k) # Canonical(q)
             /\ (ClientLock(q) /\ CanOpen(openHandles, fsState, q)) =>
                    HandlesOn(Canonical(q))' = 1
             /\ (ClientLock(q) \/ ClientUnlock(q)) =>
                    \A k \in FileKeys :
                        PathToLower(k) # Canonical(q) =>
                            /\ openHandles'[k] = openHandles[k]
                            /\ Locked(activeFileHandles', k)
                                   = Locked(activeFileHandles, k)
          ]_vars

\* C:\a\a.html was locked, and the unlock of C:\.\A\A.HTML has released
\* it, while C:\b.html stays locked.
C26_Witness ==
    /\ lockReq.op = "unlock" /\ lockReq.path = PathA2
    /\ lockReq.lockedBy[getLockKey(PathA2)] = PathA
    /\ lastOp = [op |-> "unlock", status |-> 200, exists |-> TRUE]
    /\ activeFileHandles = {getLockKey(PathB)}
    /\ openHandles[getLockKey(PathA)] = 0

\* C27: a save is idempotent on the path it returns: once a request has been
\* answered 200, saving again under the returned path, with assets present as
\* before, returns that path again.
C27_BundlesAtMostOnce ==
    (plRes # NoResult /\ plRes.status = 200) =>
        responsePath(plRes.path, plReq.assets # {}) = plRes.path

\* C28: the content delivered after inlining is never worse than the
\* document read: every text and every <img> tag whose src is absent, is a
\* data:, http:, https: or // URL or names an unreadable file is delivered as
\* it was read, and when the transform recovered from a panic the whole
\* document is delivered as it was read.
C28_InliningNeverWorse ==
    inlBody.sent =>
        /\ inlRes.recovered => inlBody.content = inlDoc
        /\ Len(inlBody.content) = Len(inlDoc)
        /\ \A i \in 1..Len(inlDoc) :
              (\/ inlDoc[i].kind = "text"
               \/ ~IsLocalSrc(inlDoc[i])
               \/ FileState(inlFiles, SrcFile(inlDoc[i].src)) = "unreadable")
                 => inlBody.content[i] = inlDoc[i]

\* The same without the clause on panics: holds when no file's inlining
\* panics.
C28_UnchangedWithoutPanic ==
    (inlBody.sent /\ ~inlRes.recovered) =>
        /\ Len(inlBody.content) = Len(inlDoc)
        /\ \A i \in 1..Len(inlDoc) :
              (\/ inlDoc[i].kind = "text"
               \/ ~IsLocalSrc(inlDoc[i])
               \/ FileState(inlFiles, SrcFile(inlDoc[i].src)) = "unreadable")
                 => inlBody.content[i] = inlDoc[i]

TrayToldToQuit == trayPc = "swept" /\ trayLog # <<>> /\ trayLog[1] = "quit"

C31_FailedSaveCreatesNoLock ==
    \A s \in SaveSlots :
        LET r == saveReq[s]
        IN  (r.pc = "failed" /\ r.clean /\ ~r.heldBefore) =>
                ~Locked(activeFileHandles, getLockKey(r.final))

\* C32: a Save (handleSaveFile) of a dirty PATH document, invoked when no lock
\* or unlock request was outstanding, has succeeded and every request has
\* been processed: the registry holds no handle for the path the document had
\* before the save nor for the path the server returned.
C32_NoHandleAfterSave ==
    (/\ Quiescent
     /\ lastSave.kind = "save" /\ lastSave.done /\ lastSave.ok
     /\ lastSave.quiet /\ lastSave.before.dirty) =>
        /\ ~Locked(activeFileHandles, getLockKey(lastSave.before.path))
        /\ ~Locked(activeFileHandles, getLockKey(lastSave.returned))

\* C33: when Save As fails after a path was chosen (save-file answers an
\* error), the document's identity is what it was when Save As was invoked:
\* originalPath, fileName and fileSource are unchanged and it is still dirty.
C33_SaveAsFailureKeepsIdentity ==
    (lastSave.kind = "saveAs" /\ lastSave.done /\ ~lastSave.ok) =>
        Identity = lastSave.before

\* C34: in every state of an editor session a PATH document has a non-empty
\* originalPath and a NEW or IMPORTED document has none.
C34_SourceMatchesPath ==
    /\ fileSource = "PATH" => originalPath # NoPath
    /\ fileSource \in {"NEW", "IMPORTED"} => originalPath = NoPath

\* C35: every ID that cli-handover returned refers to a retrievable payload:
\* a fetch of that ID answers 200, never 500, and no payload whose data is
\* not valid base64 is in the file store.
C35_ReturnedIDRetrievable ==
    /\ \A id \in DOMAIN sent :
          id \in DOMAIN fileStore => ValidBase64(fileStore[id].data)
    /\ lastGet.id \in DOMAIN sent => lastGet.status = 200

\* What holds of every auto-save, whatever path the document has afterwards:
\* it was issued for a dirty PATH document, it opened no dialog, the source
\* is unchanged, and a failed one showed no message and left the document
\* dirty.
AutoSaveQuiet ==
    /\ lastSave.before.dirty /\ lastSave.before.source = "PATH"
    /\ ~lastSave.dialog
    /\ fileSource = lastSave.before.source
    /\ (lastSave.done /\ ~lastSave.ok) => (~lastSave.toast /\ isDirty)

\* C36 as stated: the auto-save opens no dialog and never changes the
\* document's identity (originalPath, fileName, fileSource); it is issued
\* only for a dirty PATH document, and a failed one shows no message and
\* leaves the document dirty.
C36_Original ==
    lastSave.kind = "auto" =>
        /\ AutoSaveQuiet
        /\ originalPath = lastSave.before.path
        /\ fileName = lastSave.before.name

\* C36 amended: the auto-save opens no dialog and never changes fileSource;
\* it is issued only for a dirty PATH document; a failed one shows no
\* message and leaves the document dirty with its path and name; a
\* successful one adopts the path the server returned, which is the bundled
\* path when the save carried assets, and the name of that path.
C36_AutoSaveSilent ==
    lastSave.kind = "auto" =>
        /\ AutoSaveQuiet
        /\ originalPath = IF lastSave.done /\ lastSave.ok
                          THEN lastSave.returned ELSE lastSave.before.path
        /\ fileName = IF lastSave.done /\ lastSave.ok
                      THEN NameOfPath(lastSave.returned) ELSE lastSave.before.name

\* An auto-save with an asset succeeded and the document moved into its
\* bundle.
C36_Witness ==
    /\ lastSave.kind = "auto" /\ lastSave.done /\ lastSave.ok
    /\ lastSave.returned # lastSave.before.path
    /\ originalPath = lastSave.returned
    /\ ~isDirty

\* C37: a save-file response with status 200 implies that every uploaded
\* asset was written into the asset directory of the placement.
C37_SuccessWritesEveryAsset ==
    (plRes # NoResult /\ plRes.status = 200) =>
        plRes.assets = {Join(plRes.finalDir, a) : a \in plReq.assets}

\* The images of a document that prepareHtmlForSave embeds under a new name.
NewlyEmbedded(doc) == {i \in 1..Len(doc) : Embedded(doc[i]) /\ doc[i].orig = <<>>}
\* The image_N indices the document refers to: in data-original-src or in a
\* relative src.
ReferencedIndices(doc) == {ScanIndex(doc[i]) : i \in 1..Len(doc)}
AssetNamesOf(save) ==
    {save.prepared.assets[i].fileName : i \in 1..Len(save.prepared.assets)}
ReferencesOf(save) ==
    [i \in 1..Len(save.prepared.html) |-> save.prepared.html[i].src]

\* Within one call every newly embedded image gets a distinct name image_N
\* with N above every index the document referred to, and an image with
\* data-original-src keeps that file name.
C38_NamesWithinOneSave ==
    \A k \in 1..Len(asSaves) :
        LET doc  == asSaves[k].before
            html == asSaves[k].prepared.html
        IN  /\ \A i \in NewlyEmbedded(doc) :
                  /\ NameIndex(html[i].orig) > 0
                  /\ \A n \in ReferencedIndices(doc) : NameIndex(html[i].orig) > n
                  /\ \A j \in NewlyEmbedded(doc) \ {i} : html[j].orig # html[i].orig
            /\ \A i \in 1..Len(doc) :
                  (Embedded(doc[i]) /\ doc[i].orig # <<>>) =>
                      html[i].orig = LastSegment(doc[i].orig)

\* C38: asset naming is stable and collision-free across saves: new images
\* get distinct names image_N above every referenced index, an image with
\* data-original-src keeps its file name, and a second save of the unchanged
\* document, after updateEditorImages has applied the image map of the
\* first, yields the same asset names and the same image references.
C38_AssetNamesStable ==
    /\ C38_NamesWithinOneSave
    /\ (Len(asSaves) = 2 /\ asSaves[1].ok) =>
          /\ AssetNamesOf(asSaves[2]) = AssetNamesOf(asSaves[1])
          /\ ReferencesOf(asSaves[2]) = ReferencesOf(asSaves[1])

\* C39: only lock, unlock, save-file, kill and the tray exit sweep change
\* the lock registry: every step of cli-handover, open-file (by path or by
\* fileId), render-view, the dialog endpoints, the export endpoints and the
\* startup ingestion leaves the registry as it was, and as long as none of
\* the registry handlers has run no file is locked, whatever was opened or
\* handed over.
C39_RegistryFrame ==
    /\ [](lastOp = NoOp =>
            (activeFileHandles = {} /\ \A k \in FileKeys : openHandles[k] = 0))
    /\ [][(\/ storeVars' # storeVars
           \/ renderVars' # renderVars
           \/ dialogVars' # dialogVars) =>
              UNCHANGED <<activeFileHandles, openHandles>>]_vars

\* A file was opened by path, another was handed over, an export ran and a
\* dialog answered, all while a different file was locked: the opened file
\* is not in the registry.
C39_Witness ==
    /\ lastOpen.paths = <<PathA>> /\ lastGet.status = 200
    /\ fileStore # <<>>
    /\ lastView.status = 200
    /\ lastDialog.path = PathA
    /\ activeFileHandles = {getLockKey(PathB)}


====
